---- MODULE Spec2Model ----
(***************************************************************************)
(* check-talos: a one-shot Nagios plugin for Talos Linux nodes.            *)
(*                                                                         *)
(* One behaviour of this module is one invocation of the plugin:           *)
(*   main: validate -> talos.NewClient -> New<X>Check -> Check.Run         *)
(*         -> (mapGRPCError) -> Result.ApplyToPlugin                       *)
(* Check.Run is modelled retrieval by retrieval, each retrieval being one  *)
(* step whose outcome (error, empty response, data) is chosen by the       *)
(* remote side.                                                            *)
(* A second specification, LibSpec, calls package threshold and package    *)
(* output on their own, on inputs no plugin run of the model produces.     *)
(*                                                                         *)
(* Numbers.  float64 values are modelled as fixed-point integers counting  *)
(* 1/Scale units (Scale = 100): 80 is 8000, 4.56 is 456.  Every text and   *)
(* every sample of the model has at most two fractional digits, so the     *)
(* representation is exact on the model's inputs.  +Inf is PosInf, an      *)
(* integer above every value of the model, -Inf its negative.  int64 is    *)
(* 16 bits wide.                                                           *)
(***************************************************************************)
EXTENDS Integers, Sequences, FiniteSets, TLC

VARIABLES
    build,    \* the platform the binary was built for
    lib,      \* a call of package threshold or package output on its own:
              \* the input and what came back (Nil during a plugin run)
    args,     \* the parsed command line
    pc,       \* where main is
    client,   \* the Talos client: "none", "open" or "failed"
    chk,      \* the check built from the command line, Nil before
    calls,    \* the retrievals Run has made, in order, each with what the
              \* remote side returned
    loc,      \* Run's local variables between two retrievals
    result,   \* the *output.Result Run returned, Nil if none
    err,      \* main's err: the error talos.NewClient or Run returned, Nil
              \* if none
    plugin    \* the go-nagios plugin main fills in

\* The fixed-point unit: a number v of the program is the integer v * Scale.
Scale == 10 * 10

\* math.Inf(1)
PosInf == 2000000000

\* math.Inf(-1)
NegInf == 0 - PosInf

\* nil: the absent value of a pointer, response or error
Nil == [nil |-> TRUE]

(***************************************************************************)
(* Text helpers (Go strings are TLA+ strings; s[i:j] is SubSeq).           *)
(***************************************************************************)
Char(s, i) == SubSeq(s, i, i)

HasPrefix(s, p) == Len(s) >= Len(p) /\ SubSeq(s, 1, Len(p)) = p

\* strings.Index(s, c) for a one-character c: the first position (1-based)
\* of c in s, 0 when absent.
Index(s, c) ==
    IF \E i \in 1..Len(s) : Char(s, i) = c
    THEN CHOOSE i \in 1..Len(s) :
            /\ Char(s, i) = c
            /\ \A j \in 1..(i - 1) : Char(s, j) # c
    ELSE 0

Digits == {"0", "1", "2", "3", "4", "5", "6", "7", "8", "9"}

DigitVal(c) ==
    CASE c = "0" -> 0 [] c = "1" -> 1 [] c = "2" -> 2 [] c = "3" -> 3
      [] c = "4" -> 4 [] c = "5" -> 5 [] c = "6" -> 6 [] c = "7" -> 7
      [] c = "8" -> 8 [] c = "9" -> 9

DigitChar(d) ==
    CASE d = 0 -> "0" [] d = 1 -> "1" [] d = 2 -> "2" [] d = 3 -> "3"
      [] d = 4 -> "4" [] d = 5 -> "5" [] d = 6 -> "6" [] d = 7 -> "7"
      [] d = 8 -> "8" [] d = 9 -> "9"

AllDigits(s) == \A i \in 1..Len(s) : Char(s, i) \in Digits

RECURSIVE DigitsToNat(_)
DigitsToNat(s) ==
    IF Len(s) = 0 THEN 0
    ELSE 10 * DigitsToNat(SubSeq(s, 1, Len(s) - 1)) + DigitVal(Char(s, Len(s)))

RECURSIVE NatToDigits(_)
NatToDigits(n) ==
    IF n < 10 THEN DigitChar(n)
    ELSE NatToDigits(n \div 10) \o DigitChar(n % 10)

\* strconv.FormatInt(n, 10)
FormatInt(n) == IF n < 0 THEN "-" \o NatToDigits(-n) ELSE NatToDigits(n)

(***************************************************************************)
(* strconv.ParseFloat(s, 64) on decimal text without exponent (an optional *)
(* sign, digits with at most one ".", at least one digit) and on the      *)
(* spellings of infinity.  The value is returned in 1/Scale units.         *)
(* [ok |-> FALSE] is the syntax error.                                     *)
(***************************************************************************)
\* the value of the digits ip, a decimal point and the digits fp
DecimalValue(ip, fp) ==
    IF Len(ip) + Len(fp) = 0 \/ ~AllDigits(ip) \/ ~AllDigits(fp) \/ Len(fp) > 2
    THEN [ok |-> FALSE, v |-> 0]
    ELSE [ok |-> TRUE,
          v |-> DigitsToNat(ip) * Scale + DigitsToNat(SubSeq(fp \o "00", 1, 2))]

\* an unsigned decimal text m whose decimal point is at position dot (0: none)
SplitMantissa(m, dot) ==
    DecimalValue(IF dot = 0 THEN m ELSE SubSeq(m, 1, dot - 1),
                 IF dot = 0 THEN "" ELSE SubSeq(m, dot + 1, Len(m)))

ParseMantissa(m) == SplitMantissa(m, Index(m, "."))

Signed(negative, r) == [ok |-> r.ok, v |-> IF negative THEN 0 - r.v ELSE r.v]

\* spellings of infinity ParseFloat takes (it ignores case)
InfWords == {"inf", "Inf", "INF", "infinity", "Infinity"}

ParseFloat(s) ==
    IF Len(s) = 0 THEN [ok |-> FALSE, v |-> 0]
    ELSE IF s \in InfWords \/ s \in {"+" \o w : w \in InfWords}
    THEN [ok |-> TRUE, v |-> PosInf]
    ELSE IF s \in {"-" \o w : w \in InfWords} THEN [ok |-> TRUE, v |-> NegInf]
    ELSE Signed(Char(s, 1) = "-",
                ParseMantissa(IF Char(s, 1) \in {"-", "+"}
                              THEN SubSeq(s, 2, Len(s)) ELSE s))

\* the digits after the decimal point, without a trailing zero
FormatFraction(fr) ==
    IF fr % 10 = 0 THEN DigitChar(fr \div 10)
    ELSE DigitChar(fr \div 10) \o DigitChar(fr % 10)

FormatUnsigned(a) == NatToDigits(a \div Scale) \o "." \o FormatFraction(a % Scale)

\* int64 at the model's width
MaxInt64 == 2 ^ 15 - 1
MinInt64 == 0 - 2 ^ 15

\* The platforms.  They differ in what a float64 -> int64 conversion gives
\* for a value int64 cannot hold: the language leaves it to the build.
Builds == {"amd64", "arm64"}

\* int64(v) for a whole float64 v, whole being v in units of 1
Int64(whole) ==
    IF whole >= MinInt64 /\ whole <= MaxInt64 THEN whole
    ELSE IF build = "amd64" THEN MinInt64
    ELSE IF whole > 0 THEN MaxInt64 ELSE MinInt64

\* formatFloat: whole numbers without a decimal point, fractions with the
\* minimal number of digits.
formatFloat(v) ==
    IF v = PosInf THEN "+Inf"
    ELSE IF v = NegInf THEN "-Inf"
    ELSE IF v % Scale = 0 THEN FormatInt(Int64(v \div Scale))
    ELSE (IF v < 0 THEN "-" ELSE "") \o FormatUnsigned(IF v < 0 THEN 0 - v ELSE v)

(***************************************************************************)
(* package threshold                                                       *)
(***************************************************************************)
Threshold(start, end, inside, startInf) ==
    [Start |-> start, End |-> end, Inside |-> inside, StartInf |-> startInf]

ParseError == [ok |-> FALSE, t |-> Threshold(0, 0, FALSE, FALSE)]

ParseOk(t) == [ok |-> TRUE, t |-> t]

\* (variant: the order of the bounds is not checked)
CheckRangeUnordered(inside, startInf, startF, endF) ==
    IF ~startF.ok \/ ~endF.ok THEN ParseError
    ELSE ParseOk(Threshold(startF.v, endF.v, inside, startInf))

\* threshold.Parse: the final check that start does not exceed end
CheckRange(inside, startInf, startF, endF) ==
    IF ~startF.ok \/ ~endF.ok THEN ParseError
    ELSE IF ~startInf /\ endF.v # PosInf /\ startF.v > endF.v THEN ParseError
    ELSE ParseOk(Threshold(startF.v, endF.v, inside, startInf))

\* threshold.Parse: the text before and the text after the colon
ParseStartEnd(inside, startStr, endStr) ==
    CheckRange(inside, startStr = "~",
               IF startStr = "~" \/ startStr = "" THEN [ok |-> TRUE, v |-> 0]
               ELSE ParseFloat(startStr),
               IF endStr = "" THEN [ok |-> TRUE, v |-> PosInf]
               ELSE ParseFloat(endStr))

\* threshold.Parse after the "@" prefix was taken off; idx is the position
\* of the colon in s (0: none)
ParseRange(inside, s, idx) ==
    IF idx = 0
    THEN CheckRange(inside, FALSE, [ok |-> TRUE, v |-> 0], ParseFloat(s))
    ELSE ParseStartEnd(inside, SubSeq(s, 1, idx - 1), SubSeq(s, idx + 1, Len(s)))

StripAt(text) == IF HasPrefix(text, "@") THEN SubSeq(text, 2, Len(text)) ELSE text

\* threshold.Parse
Parse(text) ==
    IF text = "" THEN ParseError
    ELSE ParseRange(HasPrefix(text, "@"), StripAt(text), Index(StripAt(text), ":"))

\* (variant: the bounds themselves are outside the range)
ViolatedOpenInterval(t, value) ==
    LET inRange == IF t.StartInf THEN value < t.End
                   ELSE value > t.Start /\ value < t.End
    IN  IF t.Inside THEN inRange ELSE ~inRange

\* Threshold.Violated
Violated(t, value) ==
    LET inRange == IF t.StartInf THEN value <= t.End
                   ELSE value >= t.Start /\ value <= t.End
    IN  IF t.Inside THEN inRange ELSE ~inRange

\* Threshold.String
String(t) ==
    LET at == IF t.Inside THEN "@" ELSE ""
    IN  IF t.StartInf THEN at \o "~:" \o formatFloat(t.End)
        ELSE IF t.End = PosInf THEN at \o formatFloat(t.Start) \o ":"
        ELSE IF t.Start = 0 /\ ~t.Inside THEN formatFloat(t.End)
        ELSE at \o formatFloat(t.Start) \o ":" \o formatFloat(t.End)

\* fmt "%.1f" of a value that is a whole number of tenths
Fmt1(v) ==
    LET a == IF v < 0 THEN 0 - v ELSE v
    IN  (IF v < 0 THEN "-" ELSE "") \o NatToDigits(a \div Scale) \o "." \o
        DigitChar((a % Scale) \div 10)

\* fmt "%.2f"
Fmt2(v) ==
    LET a == IF v < 0 THEN 0 - v ELSE v
    IN  (IF v < 0 THEN "-" ELSE "") \o NatToDigits(a \div Scale) \o "." \o
        DigitChar((a % Scale) \div 10) \o DigitChar(a % 10)

\* fmt "%q" of a text without special characters
Quote(s) == "\"" \o s \o "\""

(***************************************************************************)
(* package output                                                          *)
(***************************************************************************)
OK == 0
Warning == 1
Critical == 2
Unknown == 3

\* Status.String
StatusString(s) ==
    CASE s = OK -> "OK"
      [] s = Warning -> "WARNING"
      [] s = Critical -> "CRITICAL"
      [] s = Unknown -> "UNKNOWN"
      [] OTHER -> "UNKNOWN"

\* Status.ExitCode
ExitCode(s) == s

PerfDatum(label, value, uom, warn, crit, min, max) ==
    [Label |-> label, Value |-> value, UOM |-> uom, Warn |-> warn,
     Crit |-> crit, Min |-> min, Max |-> max]

Result(status, checkName, summary, details, perfData) ==
    [Status |-> status, CheckName |-> checkName, Summary |-> summary,
     Details |-> details, PerfData |-> perfData]

\* A result with neither long text nor performance data.
BareResult(status, checkName, summary) ==
    Result(status, checkName, summary, "", <<>>)

\* formatValue
formatValue(v) == formatFloat(v)

\* (variant: an unset max is left out together with its semicolon)
PerfDatumStringWithoutEmptyMax(pd) ==
    pd.Label \o "=" \o formatValue(pd.Value) \o pd.UOM \o ";" \o pd.Warn \o ";"
        \o pd.Crit \o ";" \o pd.Min \o (IF pd.Max = "" THEN "" ELSE ";" \o pd.Max)

\* PerfDatum.String
PerfDatumString(pd) ==
    pd.Label \o "=" \o formatValue(pd.Value) \o pd.UOM \o ";" \o pd.Warn \o ";"
        \o pd.Crit \o ";" \o pd.Min \o ";" \o pd.Max

RECURSIVE FormatPerfData(_)
\* FormatPerfData: strings.Join of the rendered entries with " "
FormatPerfData(data) ==
    IF Len(data) = 0 THEN ""
    ELSE IF Len(data) = 1 THEN PerfDatumString(data[1])
    ELSE PerfDatumString(data[1]) \o " " \o FormatPerfData(Tail(data))

\* (variant: the separator is written whatever the measurements)
ResultStringAlwaysPipe(r) ==
    "TALOS " \o r.CheckName \o " " \o StatusString(r.Status) \o " - " \o r.Summary
        \o " | " \o FormatPerfData(r.PerfData)
        \o (IF r.Details # "" THEN "\n" \o r.Details ELSE "")

\* Result.String
ResultString(r) ==
    "TALOS " \o r.CheckName \o " " \o StatusString(r.Status) \o " - " \o r.Summary
        \o (IF Len(r.PerfData) > 0 THEN " | " \o FormatPerfData(r.PerfData) ELSE "")
        \o (IF r.Details # "" THEN "\n" \o r.Details ELSE "")

\* The go-nagios plugin before anything was stored in it (nagios.NewPlugin).
NewPlugin ==
    [ServiceOutput |-> "", ExitStatusCode |-> Unknown,
     LongServiceOutput |-> "", PerfData |-> <<>>]

\* Result.ApplyToPlugin
ApplyToPlugin(r, p) ==
    [ServiceOutput |-> "TALOS " \o r.CheckName \o " " \o StatusString(r.Status)
                        \o " - " \o r.Summary,
     ExitStatusCode |-> CASE r.Status = OK -> 0
                          [] r.Status = Warning -> 1
                          [] r.Status = Critical -> 2
                          [] OTHER -> 3,
     LongServiceOutput |-> IF r.Details # "" THEN r.Details ELSE p.LongServiceOutput,
     PerfData |-> p.PerfData \o
                  [i \in 1..Len(r.PerfData) |->
                     [Label |-> r.PerfData[i].Label,
                      Value |-> formatValue(r.PerfData[i].Value),
                      UnitOfMeasurement |-> r.PerfData[i].UOM,
                      Warn |-> r.PerfData[i].Warn,
                      Crit |-> r.PerfData[i].Crit,
                      Min |-> r.PerfData[i].Min,
                      Max |-> r.PerfData[i].Max]]]

(***************************************************************************)
(* Errors.  A retrieval or client-construction error either carries a gRPC *)
(* status (code, message) or is a plain error (code "").                   *)
(***************************************************************************)
GrpcCodes == {"DeadlineExceeded", "Unavailable", "Unimplemented",
              "PermissionDenied", "Internal"}

Errors == [code : GrpcCodes, msg : {"rpc failed"}] \cup
          {[code |-> "", msg |-> "connection refused"]}

\* time.Duration.String for whole seconds below one hour
DurationString(t) ==
    IF t < 60 THEN NatToDigits(t) \o "s"
    ELSE NatToDigits(t \div 60) \o "m" \o NatToDigits(t % 60) \o "s"

\* (variant: every error is mapped to CRITICAL)
mapGRPCErrorAllCritical(checkName, e, timeout) ==
    BareResult(Critical, checkName, e.msg)

\* mapGRPCError
mapGRPCError(checkName, e, timeout) ==
    IF e.code = "" THEN BareResult(Critical, checkName, e.msg)
    ELSE CASE e.code = "DeadlineExceeded" ->
                BareResult(Critical, checkName,
                           "Talos API timeout after " \o DurationString(timeout))
           [] e.code = "Unavailable" ->
                BareResult(Critical, checkName, "Talos API unavailable: " \o e.msg)
           [] e.code = "Unimplemented" ->
                BareResult(Unknown, checkName,
                           "RPC not supported (API version mismatch?)")
           [] e.code = "PermissionDenied" ->
                BareResult(Unknown, checkName, "Permission denied: " \o e.msg)
           [] OTHER ->
                BareResult(Unknown, checkName, "Talos API error: " \o e.msg)

(***************************************************************************)
(* Bounds of the model.                                                    *)
(***************************************************************************)
\* CPU time counters (user, idle) range over 0..MaxCounter
MaxCounter == 2
\* memory totals and mount sizes range over 0..MaxSize (kB, bytes)
MaxSize == 3
\* a Mounts response holds at most MaxMounts entries
MaxMounts == 2
\* a ServiceList response holds at most MaxServices services
MaxServices == 2
\* an EtcdMemberList response holds at most MaxMembers members
MaxMembers == 3
\* the etcd DB size ranges over 0..MaxDbSize bytes
MaxDbSize == 3
\* a SystemStat response lists at most MaxCPUs CPUs
MaxCPUs == 4

(***************************************************************************)
(* The command line (Args) and the files it names.                         *)
(***************************************************************************)
\* os.Stat of the paths the model uses: a regular file, a directory, or
\* nothing (the last also for inline base64 PEM data, which is no path).
Stat(path) ==
    CASE path \in {"ca.crt", "client.crt", "client.key", "talosconfig"} -> "file"
      [] path = "certs" -> "dir"
      [] OTHER -> "absent"

Auth(ca, cert, key, config, endpoint, timeout) ==
    [CA |-> ca, Cert |-> cert, Key |-> key, Config |-> config,
     Endpoint |-> endpoint, Timeout |-> timeout]

GoodAuth == Auth("", "", "", "talosconfig", "", 10)

AuthCases ==
    { GoodAuth,
      Auth("ca.crt", "client.crt", "client.key", "", "10.0.0.1:50000", 10),
      Auth("", "", "", "", "", 10),
      Auth("ca.crt", "", "client.key", "", "10.0.0.1:50000", 10),
      Auth("ca.crt", "gone.crt", "client.key", "", "10.0.0.1:50000", 10),
      Auth("certs", "client.crt", "client.key", "", "10.0.0.1:50000", 10),
      Auth("LS0tLS1CRUdJTg==", "LS0tLS1CRUdJTg==", "LS0tLS1CRUdJTg==", "",
           "10.0.0.1:50000", 10),
      Auth("", "", "", "gone.yaml", "", 10),
      Auth("ca.crt", "client.crt", "client.key", "", "", 10),
      Auth("", "", "", "talosconfig", "", 0),
      Auth("", "", "", "talosconfig", "", 121),
      Auth("", "", "", "talosconfig", "", 120) }

Cmd(cmd, w, c, mount, include, exclude, minMembers, period) ==
    [cmd |-> cmd, Warning |-> w, Critical |-> c, Mount |-> mount,
     Include |-> include, Exclude |-> exclude, MinMembers |-> minMembers,
     Period |-> period]

\* Threshold texts given to the percentage checks (cpu, memory, disk)
PctTexts == {"80", "90", "@0:50", "50:", "8x"}
\* Threshold texts given to the etcd check (DB size in bytes)
DbTexts == {"~:1", "~:2", "@3:3", ""}
\* Threshold texts given to the load check; "" leaves the threshold unset
LoadTexts == {"", "1.5", "4", "~:2.5", "4:1"}

ServiceIds == {"apid", "etcd"}

\* One plain command line per subcommand (go-arg's defaults, with the etcd
\* byte thresholds scaled down to the model's DB sizes)
BaseCmds ==
    { Cmd("cpu", "80", "90", "", {}, {}, 0, ""),
      Cmd("memory", "80", "90", "", {}, {}, 0, ""),
      Cmd("disk", "80", "90", "/var", {}, {}, 0, ""),
      Cmd("services", "", "", "", {}, {}, 0, ""),
      Cmd("etcd", "~:1", "~:2", "", {}, {}, 3, ""),
      Cmd("load", "", "", "", {}, {}, 0, "5") }

Cmds ==
    {Cmd(k, w, c, "", {}, {}, 0, "") :
        k \in {"cpu", "memory"}, w \in PctTexts, c \in PctTexts} \cup
    {Cmd("cpu", "81.3:", "90", "", {}, {}, 0, ""),
     Cmd("memory", "33.3", "66.7", "", {}, {}, 0, "")} \cup
    {Cmd("disk", "66.7:", "90", "/var", {}, {}, 0, "")} \cup
    {Cmd("disk", w, c, m, {}, {}, 0, "") :
        w \in {"80", "@0:50"}, c \in {"90", "50:", "8x"},
        m \in {"/var", "/", "var", ""}} \cup
    {Cmd("services", "", "", "", i, e, 0, "") :
        i \in SUBSET ServiceIds, e \in SUBSET ServiceIds} \cup
    {Cmd("etcd", w, c, "", {}, {}, n, "") :
        w \in DbTexts, c \in DbTexts, n \in 0..2} \cup
    {Cmd("load", w, c, "", {}, {}, 0, p) :
        w \in LoadTexts, c \in LoadTexts, p \in {"1", "5", "15", "10"}}

\* The parsed command line: Args.  cmd = "": no subcommand was given.
MkArgs(a, c) ==
    [cmd |-> c.cmd, Warning |-> c.Warning, Critical |-> c.Critical,
     Mount |-> c.Mount, Include |-> c.Include, Exclude |-> c.Exclude,
     MinMembers |-> c.MinMembers, Period |-> c.Period,
     CA |-> a.CA, Cert |-> a.Cert, Key |-> a.Key, Config |-> a.Config,
     Endpoint |-> a.Endpoint, Timeout |-> a.Timeout]

ArgsSet ==
    {MkArgs(a, c) : a \in AuthCases, c \in BaseCmds} \cup
    {MkArgs(GoodAuth, c) : c \in Cmds} \cup
    {MkArgs(GoodAuth, Cmd("", "", "", "", {}, {}, 0, ""))}

\* resolveCheckName
resolveCheckName(a) ==
    CASE a.cmd = "cpu" -> "CPU"
      [] a.cmd = "memory" -> "MEMORY"
      [] a.cmd = "disk" -> "DISK"
      [] a.cmd = "services" -> "SERVICES"
      [] a.cmd = "etcd" -> "ETCD"
      [] a.cmd = "load" -> "LOAD"
      [] OTHER -> "UNKNOWN"

\* checkFileReadable: "" when the path is a readable file, else the error
checkFileReadable(flagName, path) ==
    CASE Stat(path) = "absent" ->
            "Cannot read " \o flagName \o ": " \o path \o ": no such file or directory"
      [] Stat(path) = "dir" ->
            "Cannot read " \o flagName \o ": " \o path \o ": is a directory"
      [] OTHER -> ""

\* validateThresholds: both thresholds are required
validateThresholds(warnStr, critStr) ==
    IF ~Parse(warnStr).ok
    THEN "Invalid warning threshold " \o Quote(warnStr) \o ": expected Nagios range format"
    ELSE IF ~Parse(critStr).ok
    THEN "Invalid critical threshold " \o Quote(critStr) \o ": expected Nagios range format"
    ELSE ""

\* validateOptionalThresholds: an empty text is an unset threshold
validateOptionalThresholds(warnStr, critStr) ==
    IF warnStr # "" /\ ~Parse(warnStr).ok
    THEN "Invalid warning threshold " \o Quote(warnStr) \o ": expected Nagios range format"
    ELSE IF critStr # "" /\ ~Parse(critStr).ok
    THEN "Invalid critical threshold " \o Quote(critStr) \o ": expected Nagios range format"
    ELSE ""

\* strings.Join(missing, ", ") of the unset certificate flags
MissingCertFlags(a) ==
    LET l1 == IF a.CA = "" THEN <<"--talos-ca">> ELSE <<>>
        l2 == IF a.Cert = "" THEN Append(l1, "--talos-cert") ELSE l1
        l3 == IF a.Key = "" THEN Append(l2, "--talos-key") ELSE l2
    IN  IF Len(l3) = 0 THEN ""
        ELSE IF Len(l3) = 1 THEN l3[1]
        ELSE l3[1] \o ", " \o l3[2]

FirstError(errs) ==
    IF \E i \in 1..Len(errs) : errs[i] # ""
    THEN errs[CHOOSE i \in 1..Len(errs) :
                 errs[i] # "" /\ \A j \in 1..(i - 1) : errs[j] = ""]
    ELSE ""

\* validate (rules V2..V12): "" when every rule passes, else the message of
\* the first rule that fails
validate(a) ==
    LET hasCA == a.CA # ""
        hasCert == a.Cert # ""
        hasKey == a.Key # ""
        hasExplicitCerts == hasCA \/ hasCert \/ hasKey
        hasConfig == a.Config # ""
        v23 == IF hasExplicitCerts
               THEN IF MissingCertFlags(a) # ""
                    THEN "Incomplete cert auth: missing " \o MissingCertFlags(a)
                    ELSE ""
               ELSE IF ~hasConfig
                    THEN "No authentication configured. Provide --talos-ca/--talos-cert/--talos-key or --talosconfig"
                    ELSE ""
        v4 == FirstError(<<
                 IF hasCA /\ hasCert /\ hasKey
                 THEN FirstError(<<checkFileReadable("--talos-ca", a.CA),
                                   checkFileReadable("--talos-cert", a.Cert),
                                   checkFileReadable("--talos-key", a.Key)>>)
                 ELSE "",
                 IF hasConfig THEN checkFileReadable("--talosconfig", a.Config)
                 ELSE "" >>)
        v5 == IF hasExplicitCerts /\ a.Endpoint = ""
              THEN "No endpoint configured. Provide --talos-endpoint or use --talosconfig"
              ELSE ""
        v6 == IF a.Timeout <= 0 \/ a.Timeout > 120
              THEN "Invalid timeout " \o Quote(DurationString(a.Timeout)) \o
                   ": must be between 1s and 120s"
              ELSE ""
        sub == CASE a.cmd \in {"cpu", "memory"} ->
                      validateThresholds(a.Warning, a.Critical)
                 [] a.cmd = "disk" ->
                      IF a.Mount = "" \/ Char(a.Mount, 1) # "/"
                      THEN "Invalid --mount " \o Quote(a.Mount) \o
                           ": must be an absolute path"
                      ELSE validateThresholds(a.Warning, a.Critical)
                 [] a.cmd = "services" ->
                      IF a.Include # {} /\ a.Exclude # {}
                      THEN "Cannot use both --include and --exclude"
                      ELSE ""
                 [] a.cmd = "etcd" ->
                      IF a.MinMembers < 1
                      THEN "Invalid --min-members " \o Quote(FormatInt(a.MinMembers))
                           \o ": must be >= 1"
                      ELSE validateThresholds(a.Warning, a.Critical)
                 [] a.cmd = "load" ->
                      IF a.Period \notin {"1", "5", "15"}
                      THEN "Invalid --period " \o Quote(a.Period) \o
                           ": must be 1, 5, or 15"
                      ELSE validateOptionalThresholds(a.Warning, a.Critical)
                 [] OTHER -> ""
    IN  FirstError(<<v23, v4, v5, v6, sub>>)

(***************************************************************************)
(* Arithmetic of the checks.                                               *)
(***************************************************************************)
\* uint64 arithmetic wraps; the model keeps the wrap at a reduced width.
UintMod == 2 ^ 16

\* a - b in unsigned arithmetic
USub(a, b) == (a - b) % UintMod

\* (variant: the percentage is cut off after the first decimal)
RoundPctDown(num, den) == 10 * ((1000 * num) \div den)

\* math.Round(num / den * 100 * 10) / 10 for num >= 0, den > 0: the
\* percentage rounded to one decimal, half away from zero, in 1/Scale units.
RoundPct(num, den) == 10 * ((2000 * num + den) \div (2 * den))

\* n / unit rounded to two decimals (fmt "%.2f"; an exact tie goes to even)
Div2f(n, unit) ==
    LET q == (n * 100) \div unit
        r == (n * 100) % unit
    IN  IF 2 * r > unit \/ (2 * r = unit /\ q % 2 = 1) THEN q + 1 ELSE q

\* HumanBytes.  Byte counts of the model stay below 2^20, so the GB and TB
\* branches of the source are out of its range.
HumanBytes(bytes) ==
    IF bytes >= 1024 * 1024 THEN Fmt2(Div2f(bytes, 1024 * 1024)) \o " MB"
    ELSE IF bytes >= 1024 THEN Fmt2(Div2f(bytes, 1024)) \o " KB"
    ELSE FormatInt(bytes) \o " B"

(***************************************************************************)
(* What a retrieval returns: an error, or a response (Nil, or a record     *)
(* with the Messages list).  What Run returns: a result or an error.       *)
(***************************************************************************)
Failure(e) == [err |-> e, resp |-> Nil]
Response(r) == [err |-> Nil, resp |-> r]
Messages(ms) == [Messages |-> ms]

Failures == {Failure(e) : e \in Errors}
\* resp == nil, and a response without messages
EmptyResponses == {Response(Nil), Response(Messages(<<>>))}

IsEmpty(o) == o.resp = Nil \/ Len(o.resp.Messages) = 0

Returned(r) == [result |-> r, err |-> Nil]

\* (variant: the error comes along with a decision record)
FailedWithRecord(e) == [result |-> BareResult(Unknown, "", e.msg), err |-> e]

Failed(e) == [result |-> Nil, err |-> e]

\* (variant: an empty response reported as WARNING)
EmptyResponseAsWarning(name) ==
    BareResult(Warning, name, "Empty response from Talos API")

EmptyResponse(name) == BareResult(Unknown, name, "Empty response from Talos API")

(***************************************************************************)
(* CPUCheck                                                                *)
(***************************************************************************)
CPUStat(user, nice, system, idle, iowait, irq, softIrq, steal) ==
    [User |-> user, Nice |-> nice, System |-> system, Idle |-> idle,
     Iowait |-> iowait, Irq |-> irq, SoftIrq |-> softIrq, Steal |-> steal]

SystemStat(cpuTotal, cpus) == [CpuTotal |-> cpuTotal, Cpu |-> cpus]

\* What SystemStat may return to the CPU check
CPUStatOutcomes ==
    Failures \cup EmptyResponses \cup
    {Response(Messages(<<SystemStat(Nil, <<>>)>>))} \cup
    {Response(Messages(<<SystemStat(CPUStat(u, n, s, i, w, q, f, t), <<>>)>>)) :
        u \in 0..MaxCounter, i \in 0..MaxCounter, n \in {0, 1}, s \in {0, 1},
        w \in {0, 1}, q \in {0, 8}, f \in {0}, t \in {0, 1}}

\* (variant: the warning range is consulted first)
CPUStatusWarningFirst(ch, usagePct) ==
    IF Violated(ch.Warning, usagePct) THEN Warning
    ELSE IF Violated(ch.Critical, usagePct) THEN Critical
    ELSE OK

\* CPUCheck.Run: the severity of a usage percentage
CPUStatus(ch, usagePct) ==
    IF Violated(ch.Critical, usagePct) THEN Critical
    ELSE IF Violated(ch.Warning, usagePct) THEN Warning
    ELSE OK

\* CPUCheck.Run, given what SystemStat returned
CPUCheckRun(ch, o) ==
    IF o.err # Nil THEN Failed(o.err)
    ELSE IF IsEmpty(o) THEN Returned(EmptyResponse("CPU"))
    ELSE
    LET cpu == o.resp.Messages[1].CpuTotal
    IN  IF cpu = Nil
        THEN Returned(BareResult(Unknown, "CPU", "No CPU data in response"))
        ELSE
        LET total == cpu.User + cpu.Nice + cpu.System + cpu.Idle + cpu.Iowait
                     + cpu.Irq + cpu.SoftIrq + cpu.Steal
            active == total - cpu.Idle - cpu.Iowait
            usagePct == RoundPct(active, total)
        IN  IF total = 0
            THEN Returned(BareResult(Unknown, "CPU",
                                     "Invalid data: total CPU time is zero"))
            ELSE Returned(Result(CPUStatus(ch, usagePct), "CPU",
                     "CPU usage " \o Fmt1(usagePct) \o "%", "",
                     << PerfDatum("cpu_usage", usagePct, "", String(ch.Warning),
                                  String(ch.Critical), "0", "100") >>))

(***************************************************************************)
(* MemoryCheck                                                             *)
(***************************************************************************)
Meminfo(total, available) == [Memtotal |-> total, Memavailable |-> available]

MemoryOutcomes ==
    Failures \cup EmptyResponses \cup
    {Response(Messages(<<[Meminfo |-> Nil]>>))} \cup
    {Response(Messages(<<[Meminfo |-> Meminfo(t, a)]>>)) :
        t \in 0..MaxSize, a \in 0..MaxSize}

\* MemoryCheck.Run: the severity of a usage percentage
MemoryStatus(ch, usagePct) ==
    IF Violated(ch.Critical, usagePct) THEN Critical
    ELSE IF Violated(ch.Warning, usagePct) THEN Warning
    ELSE OK

\* MemoryCheck.Run, given what Memory returned
MemoryCheckRun(ch, o) ==
    IF o.err # Nil THEN Failed(o.err)
    ELSE IF IsEmpty(o) THEN Returned(EmptyResponse("MEMORY"))
    ELSE
    LET meminfo == o.resp.Messages[1].Meminfo
    IN  IF meminfo = Nil
        THEN Returned(BareResult(Unknown, "MEMORY", "No memory data in response"))
        ELSE IF meminfo.Memtotal = 0
        THEN Returned(BareResult(Unknown, "MEMORY",
                                 "Invalid data: total memory is zero"))
        ELSE
        LET memTotal == (meminfo.Memtotal * 1024) % UintMod
            memAvailable == (meminfo.Memavailable * 1024) % UintMod
            usedBytes == USub(memTotal, memAvailable)
            usagePct == RoundPct(usedBytes, memTotal)
        IN  Returned(Result(MemoryStatus(ch, usagePct), "MEMORY",
                "Memory usage " \o Fmt1(usagePct) \o "% (" \o HumanBytes(usedBytes)
                    \o " / " \o HumanBytes(memTotal) \o ")", "",
                << PerfDatum("memory_usage", usagePct, "", String(ch.Warning),
                             String(ch.Critical), "0", "100"),
                   PerfDatum("memory_used", usedBytes * Scale, "B", "", "", "0",
                             FormatInt(memTotal)),
                   PerfDatum("memory_total", memTotal * Scale, "B", "", "", "0",
                             "") >>))

(***************************************************************************)
(* DiskCheck                                                               *)
(***************************************************************************)
MountStat(mountedOn, size, available) ==
    [MountedOn |-> mountedOn, Size |-> size, Available |-> available]

MountStats ==
    {MountStat(m, s, a) :
        m \in {"/var", "/"}, s \in {0, 1, MaxSize}, a \in {0, 1, MaxSize}}

RECURSIVE SeqsUpTo(_, _)
\* the sequences of at most n elements of S
SeqsUpTo(S, n) ==
    IF n = 0 THEN {<<>>}
    ELSE LET shorter == SeqsUpTo(S, n - 1)
         IN  shorter \cup {Append(q, e) : q \in shorter, e \in S}

MountsOutcomes ==
    Failures \cup EmptyResponses \cup
    {Response(Messages(<<[Stats |-> l]>>)) : l \in SeqsUpTo(MountStats, MaxMounts)}

\* DiskCheck.Run: the severity of a usage percentage
DiskStatus(ch, usagePct) ==
    IF Violated(ch.Critical, usagePct) THEN Critical
    ELSE IF Violated(ch.Warning, usagePct) THEN Warning
    ELSE OK

\* DiskCheck.Run: the decision on the entry that matches the mount
DiskEntryResult(ch, ms) ==
    LET size == ms.Size
        used == USub(size, ms.Available)
        usagePct == RoundPct(used, size)
    IN  IF size = 0
        THEN BareResult(Unknown, "DISK",
                        "Invalid data: total capacity is zero for " \o ch.Mount)
        ELSE Result(DiskStatus(ch, usagePct), "DISK",
                ch.Mount \o " usage " \o Fmt1(usagePct) \o "% (" \o HumanBytes(used)
                    \o " / " \o HumanBytes(size) \o ")", "",
                << PerfDatum("disk_usage", usagePct, "", String(ch.Warning),
                             String(ch.Critical), "0", "100"),
                   PerfDatum("disk_used", used * Scale, "B", "", "", "0",
                             FormatInt(size)),
                   PerfDatum("disk_total", size * Scale, "B", "", "", "0", "") >>)

\* (variant: a mount that is not listed is reported as CRITICAL)
MountNotFoundAsCritical(ch) ==
    BareResult(Critical, "DISK", "Mount point " \o ch.Mount \o " not found")

\* DiskCheck.Run: no entry of the response matches the mount
MountNotFound(ch) ==
    BareResult(Unknown, "DISK", "Mount point " \o ch.Mount \o " not found")

\* DiskCheck.Run, given what Mounts returned
DiskCheckRun(ch, o) ==
    IF o.err # Nil THEN Failed(o.err)
    ELSE IF IsEmpty(o) THEN Returned(EmptyResponse("DISK"))
    ELSE
    LET stats == o.resp.Messages[1].Stats
        matches == {i \in 1..Len(stats) : stats[i].MountedOn = ch.Mount}
    IN  IF Len(stats) = 0
        THEN Returned(BareResult(Unknown, "DISK", "No mount data in response"))
        ELSE IF matches # {}
        THEN Returned(DiskEntryResult(ch,
                 stats[CHOOSE i \in matches : \A j \in matches : i <= j]))
        ELSE Returned(MountNotFound(ch))

(***************************************************************************)
(* ServicesCheck                                                           *)
(***************************************************************************)
Health(healthy, unknown, lastMessage) ==
    [Healthy |-> healthy, Unknown |-> unknown, LastMessage |-> lastMessage]

Service(id, state, health) == [Id |-> id, State |-> state, Health |-> health]

Services ==
    {Service(id, st, h) :
        id \in ServiceIds, st \in {"Running", "Finished"},
        h \in {Nil, Health(TRUE, FALSE, ""), Health(FALSE, TRUE, ""),
               Health(FALSE, FALSE, "probe failed")}}

ServiceListOutcomes ==
    Failures \cup EmptyResponses \cup
    {Response(Messages(<<[Services |-> l]>>)) : l \in SeqsUpTo(Services, MaxServices)}

Letters == "abcdefghijklmnopqrstuvwxyz"

RECURSIVE StrLess(_, _)
\* a < b on texts of lower-case letters (Go compares strings bytewise)
StrLess(a, b) ==
    IF Len(b) = 0 THEN FALSE
    ELSE IF Len(a) = 0 THEN TRUE
    ELSE IF Char(a, 1) = Char(b, 1)
         THEN StrLess(SubSeq(a, 2, Len(a)), SubSeq(b, 2, Len(b)))
         ELSE Index(Letters, Char(a, 1)) < Index(Letters, Char(b, 1))

\* (variant: the exclude list is not applied)
MonitoredIgnoringExclude(ch, id) ==
    ch.Include # {} => id \in ch.Include

\* ServicesCheck.Run: the include and exclude filters
Monitored(ch, id) ==
    /\ (ch.Include # {} => id \in ch.Include)
    /\ (ch.Exclude # {} => id \notin ch.Exclude)

\* (variant: the state of the service is not looked at)
IsHealthyWhateverState(svc) ==
    /\ svc.Health # Nil
    /\ (svc.Health.Healthy \/ svc.Health.Unknown)

\* ServicesCheck.Run: the health predicate
IsHealthy(svc) ==
    /\ svc.State = "Running"
    /\ svc.Health # Nil
    /\ (svc.Health.Healthy \/ svc.Health.Unknown)

\* ServicesCheck.Run: the description of an unhealthy service
UnhealthyInfo(svc) ==
    [id |-> svc.Id, state |-> svc.State,
     health |-> IF svc.Health = Nil THEN "unknown"
                ELSE IF svc.Health.Healthy THEN "healthy"
                ELSE IF svc.Health.Unknown THEN "unknown"
                ELSE "unhealthy",
     message |-> IF svc.Health = Nil THEN "" ELSE svc.Health.LastMessage]

\* (variant: the unhealthy services stay in the order of the response)
KeptInResponseOrder(l) == {l}

\* sort.Slice by id: every ordering of l with ascending ids (the sort is
\* not stable, so entries with equal ids may come in any order)
SortedById(l) ==
    {[i \in 1..Len(l) |-> l[p[i]]] :
        p \in {q \in [1..Len(l) -> 1..Len(l)] :
                 /\ \A i, j \in 1..Len(l) : i # j => q[i] # q[j]
                 /\ \A i \in 1..(Len(l) - 1) : ~StrLess(l[q[i + 1]].id, l[q[i]].id)}}

RECURSIVE JoinIds(_)
\* strings.Join(names, ", ")
JoinIds(l) ==
    IF Len(l) = 0 THEN ""
    ELSE IF Len(l) = 1 THEN l[1].id
    ELSE l[1].id \o ", " \o JoinIds(Tail(l))

RECURSIVE DetailLines(_)
\* the long text: one line per unhealthy service
DetailLines(l) ==
    IF Len(l) = 0 THEN ""
    ELSE LET u == l[1]
             line == u.id \o ": state=" \o u.state \o ", health=" \o u.health
                     \o ", message=" \o Quote(u.message)
         IN  IF Len(l) = 1 THEN line ELSE line \o "\n" \o DetailLines(Tail(l))

\* (variant: a list without services counts as "none unhealthy")
NoServicesAsOK == BareResult(OK, "SERVICES", "0/0 services healthy")

\* ServicesCheck.Run: the service list of the response is empty
NoServices == BareResult(Unknown, "SERVICES", "No services in response")

\* ServicesCheck.Run, given what ServiceList returned and the order the sort
\* left the unhealthy services in
ServicesCheckRun(ch, o, sorted) ==
    IF o.err # Nil THEN Failed(o.err)
    ELSE IF IsEmpty(o) THEN Returned(EmptyResponse("SERVICES"))
    ELSE
    LET services == o.resp.Messages[1].Services
        monitored == SelectSeq(services, LAMBDA svc : Monitored(ch, svc.Id))
        total == Len(monitored)
        healthy == Len(SelectSeq(monitored, IsHealthy))
        unhealthyCount == total - healthy
        perfData == << PerfDatum("services_total", total * Scale, "", "", "", "0", ""),
                       PerfDatum("services_healthy", healthy * Scale, "", "", "", "0", ""),
                       PerfDatum("services_unhealthy", unhealthyCount * Scale, "", "",
                                 "", "0", "") >>
    IN  IF Len(services) = 0
        THEN Returned(NoServices)
        ELSE IF unhealthyCount = 0
        THEN Returned(Result(OK, "SERVICES",
                 FormatInt(healthy) \o "/" \o FormatInt(total) \o " services healthy",
                 "", perfData))
        ELSE Returned(Result(Critical, "SERVICES",
                 FormatInt(unhealthyCount) \o "/" \o FormatInt(total)
                     \o " services unhealthy: " \o JoinIds(sorted),
                 DetailLines(sorted), perfData))

\* the unhealthy monitored services of a response, in response order
UnhealthyList(ch, o) ==
    IF o.err # Nil \/ IsEmpty(o) THEN <<>>
    ELSE LET l == SelectSeq(o.resp.Messages[1].Services,
                            LAMBDA svc : Monitored(ch, svc.Id) /\ ~IsHealthy(svc))
         IN  [i \in 1..Len(l) |-> UnhealthyInfo(l[i])]

(***************************************************************************)
(* EtcdCheck                                                               *)
(***************************************************************************)
\* EtcdMemberStatus: the fields Run reads, and the errors list, which it
\* does not read
MemberStatus(memberId, leader, dbSize, dbSizeInUse, errors) ==
    [MemberId |-> memberId, Leader |-> leader, DbSize |-> dbSize,
     DbSizeInUse |-> dbSizeInUse, Errors |-> errors]

EtcdStatusOutcomes ==
    Failures \cup EmptyResponses \cup
    {Response(Messages(<<[MemberStatus |-> Nil]>>))} \cup
    {Response(Messages(<<[MemberStatus |-> MemberStatus(1, l, d, u, <<>>)]>>)) :
        l \in 0..2, d \in 0..MaxDbSize, u \in {0, 1}} \cup
    {Response(Messages(<<[MemberStatus |->
                            MemberStatus(1, l, d, 0, <<"etcdserver: corrupt">>)]>>)) :
        l \in {0, 1}, d \in {0, MaxDbSize}}

\* a member list of n members
MemberList(n) == [i \in 1..n |-> [Id |-> i]]

EtcdMemberListOutcomes ==
    Failures \cup EmptyResponses \cup
    {Response(Messages(<<[Members |-> MemberList(n)]>>)) : n \in 0..MaxMembers}

AlarmTypes == {"NONE", "NOSPACE", "CORRUPT"}

EtcdAlarmListOutcomes ==
    Failures \cup EmptyResponses \cup
    {Response(Messages(<<[MemberAlarms |-> l]>>)) :
        l \in {<<>>, <<"NONE">>, <<"NOSPACE">>, <<"NONE", "CORRUPT">>,
               <<"NOSPACE", "CORRUPT">>}} \cup
    {Response(Messages(<<[MemberAlarms |-> <<"NONE">>],
                         [MemberAlarms |-> <<"CORRUPT">>]>>))}

RECURSIVE Flatten(_)
Flatten(ls) == IF Len(ls) = 0 THEN <<>> ELSE Head(ls) \o Flatten(Tail(ls))

\* collectAlarms: the non-NONE alarms of every message, in order
collectAlarms(resp) ==
    IF resp = Nil THEN <<>>
    ELSE SelectSeq(Flatten([i \in 1..Len(resp.Messages) |->
                               resp.Messages[i].MemberAlarms]),
                   LAMBDA alarm : alarm # "NONE")

RECURSIVE JoinStrings(_)
\* strings.Join(l, ", ")
JoinStrings(l) ==
    IF Len(l) = 0 THEN ""
    ELSE IF Len(l) = 1 THEN l[1]
    ELSE l[1] \o ", " \o JoinStrings(Tail(l))

\* EtcdCheck.Run: the performance data built from the three retrievals
EtcdPerfData(ch, dbSize, dbSizeInUse, memberCount) ==
    << PerfDatum("etcd_dbsize", dbSize * Scale, "B", String(ch.Warning),
                 String(ch.Critical), "0", ""),
       PerfDatum("etcd_dbsize_in_use", dbSizeInUse * Scale, "B", "", "", "0", ""),
       PerfDatum("etcd_members", memberCount * Scale, "", "", "", "0", "") >>

\* EtcdCheck.Run: the severity of a DB size
EtcdStatus(ch, dbSize) ==
    IF Violated(ch.Critical, dbSize) THEN Critical
    ELSE IF Violated(ch.Warning, dbSize) THEN Warning
    ELSE OK

\* (variant: the member count is asserted before the leader)
EtcdDecideMembersFirst(ch, ms, memberCount, activeAlarms, perfData) ==
    IF memberCount < ch.MinMembers
    THEN Result(Critical, "ETCD",
             "Member count " \o FormatInt(memberCount) \o " below minimum "
                 \o FormatInt(ch.MinMembers), "", perfData)
    ELSE IF ms.Leader = 0
    THEN Result(Critical, "ETCD", "No leader elected", "", perfData)
    ELSE IF Len(activeAlarms) > 0
    THEN Result(Critical, "ETCD",
             "Active alarm: " \o JoinStrings(activeAlarms), "", perfData)
    ELSE Result(EtcdStatus(ch, ms.DbSize * Scale), "ETCD",
             (IF ms.MemberId = ms.Leader THEN "Leader"
              ELSE "Follower, leader " \o FormatInt(ms.Leader))
                 \o ", " \o FormatInt(memberCount) \o "/"
                 \o FormatInt(ch.MinMembers) \o " members, DB "
                 \o HumanBytes(ms.DbSize), "", perfData)

\* (variant: the alarms are asserted before the leader)
EtcdDecideAlarmsFirst(ch, ms, memberCount, activeAlarms, perfData) ==
    IF Len(activeAlarms) > 0
    THEN Result(Critical, "ETCD",
             "Active alarm: " \o JoinStrings(activeAlarms), "", perfData)
    ELSE IF ms.Leader = 0
    THEN Result(Critical, "ETCD", "No leader elected", "", perfData)
    ELSE IF memberCount < ch.MinMembers
    THEN Result(Critical, "ETCD",
             "Member count " \o FormatInt(memberCount) \o " below minimum "
                 \o FormatInt(ch.MinMembers), "", perfData)
    ELSE Result(EtcdStatus(ch, ms.DbSize * Scale), "ETCD",
             (IF ms.MemberId = ms.Leader THEN "Leader"
              ELSE "Follower, leader " \o FormatInt(ms.Leader))
                 \o ", " \o FormatInt(memberCount) \o "/"
                 \o FormatInt(ch.MinMembers) \o " members, DB "
                 \o HumanBytes(ms.DbSize), "", perfData)

\* EtcdCheck.Run: the structural assertions in order, then the DB size
\* against the thresholds; perfData goes into every result
EtcdDecide(ch, ms, memberCount, activeAlarms, perfData) ==
    IF ms.Leader = 0
    THEN Result(Critical, "ETCD", "No leader elected", "", perfData)
    ELSE IF memberCount < ch.MinMembers
    THEN Result(Critical, "ETCD",
             "Member count " \o FormatInt(memberCount) \o " below minimum "
                 \o FormatInt(ch.MinMembers), "", perfData)
    ELSE IF Len(activeAlarms) > 0
    THEN Result(Critical, "ETCD",
             "Active alarm: " \o JoinStrings(activeAlarms), "", perfData)
    ELSE Result(EtcdStatus(ch, ms.DbSize * Scale), "ETCD",
             (IF ms.MemberId = ms.Leader THEN "Leader"
              ELSE "Follower, leader " \o FormatInt(ms.Leader))
                 \o ", " \o FormatInt(memberCount) \o "/"
                 \o FormatInt(ch.MinMembers) \o " members, DB "
                 \o HumanBytes(ms.DbSize), "", perfData)

\* (variant: measurements only on a decision the thresholds made)
EtcdEvaluateBareAssertions(ch, ms, memberCount, activeAlarms) ==
    EtcdDecide(ch, ms, memberCount, activeAlarms,
               IF ms.Leader = 0 \/ memberCount < ch.MinMembers
                  \/ Len(activeAlarms) > 0
               THEN <<>>
               ELSE EtcdPerfData(ch, ms.DbSize, ms.DbSizeInUse, memberCount))

\* EtcdCheck.Run after the three retrievals returned
EtcdEvaluate(ch, ms, memberCount, activeAlarms) ==
    EtcdDecide(ch, ms, memberCount, activeAlarms,
               EtcdPerfData(ch, ms.DbSize, ms.DbSizeInUse, memberCount))

(***************************************************************************)
(* LoadCheck                                                               *)
(***************************************************************************)
LoadAvg(load1, load5, load15) == [Load1 |-> load1, Load5 |-> load5, Load15 |-> load15]

LoadAvgOutcomes ==
    Failures \cup EmptyResponses \cup
    {Response(Messages(<<LoadAvg(a, b, c)>>)) :
        a \in {0, 150, 456}, b \in {100, 250}, c \in {50, 400, 900}}

\* What SystemStat may return to the load check: n per-CPU entries
CPUCountOutcomes ==
    Failures \cup EmptyResponses \cup
    {Response(Messages(<<SystemStat(Nil, [i \in 1..n |-> CPUStat(1, 0, 0, 1, 0, 0, 0, 0)])>>)) :
        n \in 0..MaxCPUs}

\* (variant: the critical threshold is not doubled)
AutoThresholdSameFactor(factor, cpuCount) ==
    Threshold(0, cpuCount * Scale, FALSE, FALSE)

\* LoadCheck.Run: the threshold computed from the CPU count
AutoThreshold(factor, cpuCount) ==
    Threshold(0, factor * cpuCount * Scale, FALSE, FALSE)

\* LoadCheck.Run: the severity of the selected load
LoadStatus(warn, crit, selectedLoad) ==
    IF Violated(crit, selectedLoad) THEN Critical
    ELSE IF Violated(warn, selectedLoad) THEN Warning
    ELSE OK

\* LoadCheck.Run: the load of the configured period
SelectedLoad(ch, loadAvg) ==
    CASE ch.Period = "1" -> loadAvg.Load1
      [] ch.Period = "5" -> loadAvg.Load5
      [] ch.Period = "15" -> loadAvg.Load15
      [] OTHER -> 0

\* (variant: the thresholds are attached to all three loads)
LoadPerfDataOnEveryPeriod(period, loadAvg, warnStr, critStr) ==
    << PerfDatum("load1", loadAvg.Load1, "", warnStr, critStr, "0", ""),
       PerfDatum("load5", loadAvg.Load5, "", warnStr, critStr, "0", ""),
       PerfDatum("load15", loadAvg.Load15, "", warnStr, critStr, "0", "") >>

\* LoadCheck.Run: the three loads, the thresholds on the selected period only
LoadPerfData(period, loadAvg, warnStr, critStr) ==
    << PerfDatum("load1", loadAvg.Load1, "",
                 IF period = "1" THEN warnStr ELSE "",
                 IF period = "1" THEN critStr ELSE "", "0", ""),
       PerfDatum("load5", loadAvg.Load5, "",
                 IF period = "5" THEN warnStr ELSE "",
                 IF period = "5" THEN critStr ELSE "", "0", ""),
       PerfDatum("load15", loadAvg.Load15, "",
                 IF period = "15" THEN warnStr ELSE "",
                 IF period = "15" THEN critStr ELSE "", "0", "") >>

LoadResult(ch, loadAvg, warn, crit, selectedLoad) ==
    Result(LoadStatus(warn, crit, selectedLoad), "LOAD",
           "Load average (" \o ch.Period \o "m) " \o Fmt2(selectedLoad), "",
           LoadPerfData(ch.Period, loadAvg, String(warn), String(crit)))

\* LoadCheck.Run once the effective thresholds are known
LoadEvaluate(ch, loadAvg, warn, crit) ==
    IF ch.Period \notin {"1", "5", "15"}
    THEN BareResult(Unknown, "LOAD", "Invalid period: " \o ch.Period)
    ELSE LoadResult(ch, loadAvg, warn, crit, SelectedLoad(ch, loadAvg))

\* (variant: a CPU count of zero is used as it comes)
LoadCalibrateAnyCount(ch, loadAvg, o) ==
    IF o.err # Nil THEN Failed(o.err)
    ELSE IF IsEmpty(o)
    THEN Returned(BareResult(Unknown, "LOAD",
                             "Empty SystemStat response from Talos API"))
    ELSE Returned(LoadEvaluate(ch, loadAvg,
            IF ch.Warning = Nil
            THEN AutoThreshold(1, Len(o.resp.Messages[1].Cpu)) ELSE ch.Warning,
            IF ch.Critical = Nil
            THEN AutoThreshold(2, Len(o.resp.Messages[1].Cpu)) ELSE ch.Critical))

\* LoadCheck.Run after SystemStat returned: the unset thresholds are
\* computed from the CPU count
LoadCalibrate(ch, loadAvg, o) ==
    IF o.err # Nil THEN Failed(o.err)
    ELSE IF IsEmpty(o)
    THEN Returned(BareResult(Unknown, "LOAD",
                             "Empty SystemStat response from Talos API"))
    ELSE IF Len(o.resp.Messages[1].Cpu) = 0
    THEN Returned(BareResult(Unknown, "LOAD", "Invalid data: CPU count is zero"))
    ELSE Returned(LoadEvaluate(ch, loadAvg,
            IF ch.Warning = Nil
            THEN AutoThreshold(1, Len(o.resp.Messages[1].Cpu)) ELSE ch.Warning,
            IF ch.Critical = Nil
            THEN AutoThreshold(2, Len(o.resp.Messages[1].Cpu)) ELSE ch.Critical))

\* (variant: the CPU count is asked for whatever the thresholds)
NeedsCPUCountAlways(ch) == TRUE

\* LoadCheck.Run: a threshold left unset has to be computed from the CPU count
NeedsCPUCount(ch) == ch.Warning = Nil \/ ch.Critical = Nil

(***************************************************************************)
(* Check construction (NewCPUCheck .. NewLoadCheck)                        *)
(***************************************************************************)
Check(kind, w, c, a) ==
    [kind |-> kind, Warning |-> w, Critical |-> c, Mount |-> a.Mount,
     Include |-> a.Include, Exclude |-> a.Exclude, MinMembers |-> a.MinMembers,
     Period |-> a.Period]

\* NewCPUCheck, NewMemoryCheck, NewDiskCheck, NewEtcdCheck: both thresholds
\* are parsed; NewServicesCheck: no thresholds; NewLoadCheck: an empty text
\* leaves the threshold unset (Nil).  [ok |-> FALSE] carries the error.
BuildCheck(a, w, c) ==
    CASE a.cmd = "services" ->
           [ok |-> TRUE, chk |-> Check("services", Nil, Nil, a), err |-> ""]
      [] a.cmd = "load" ->
           IF a.Warning # "" /\ ~w.ok
           THEN [ok |-> FALSE, chk |-> Nil, err |-> "invalid warning threshold"]
           ELSE IF a.Critical # "" /\ ~c.ok
           THEN [ok |-> FALSE, chk |-> Nil, err |-> "invalid critical threshold"]
           ELSE [ok |-> TRUE, err |-> "",
                 chk |-> Check("load",
                               IF a.Warning # "" THEN w.t ELSE Nil,
                               IF a.Critical # "" THEN c.t ELSE Nil, a)]
      [] OTHER ->
           IF ~w.ok
           THEN [ok |-> FALSE, chk |-> Nil, err |-> "invalid warning threshold"]
           ELSE IF ~c.ok
           THEN [ok |-> FALSE, chk |-> Nil, err |-> "invalid critical threshold"]
           ELSE [ok |-> TRUE, chk |-> Check(a.cmd, w.t, c.t, a), err |-> ""]

NewCheck(a) == BuildCheck(a, Parse(a.Warning), Parse(a.Critical))

(***************************************************************************)
(* The state of one invocation.                                            *)
(***************************************************************************)
vars == <<build, lib, args, pc, client, chk, calls, loc, result, err, plugin>>

Init ==
    /\ build \in Builds
    /\ lib = Nil
    /\ args \in ArgsSet
    /\ pc = "parse"
    /\ client = "none"
    /\ chk = Nil
    /\ calls = <<>>
    /\ loc = Nil
    /\ result = Nil
    /\ err = Nil
    /\ plugin = NewPlugin

\* (variant: an early exit that leaves a measurement in the plugin)
ExitUnknownWithPerfData(text) ==
    plugin' = [plugin EXCEPT !.ServiceOutput = text, !.ExitStatusCode = Unknown,
                             !.PerfData = <<[Label |-> "time", Value |-> "0",
                                             UnitOfMeasurement |-> "s", Warn |-> "",
                                             Crit |-> "", Min |-> "0", Max |-> ""]>>]

\* main's early exits: the plugin reports UNKNOWN with a bare message
ExitUnknown(text) ==
    plugin' = [plugin EXCEPT !.ServiceOutput = text, !.ExitStatusCode = Unknown]

Call(op, o) == [op |-> op, out |-> o]

\* What a retrieval returned: an error, no message, or data
Got(call) ==
    IF call.out.err # Nil THEN "error"
    ELSE IF IsEmpty(call.out) THEN "empty"
    ELSE "data"

\* (variant: a failed retrieval is attempted again)
ReturnUnlessFailed(r) ==
    IF r.err # Nil /\ Len(calls) < 3
    THEN UNCHANGED <<result, err, pc>>
    ELSE /\ result' = r.result
         /\ err' = r.err
         /\ pc' = "returned"

\* Run returns
Return(r) ==
    /\ result' = r.result
    /\ err' = r.err
    /\ pc' = "returned"

\* main: V1, a subcommand must be given
ParseArgs ==
    /\ pc = "parse"
    /\ IF args.cmd = ""
       THEN /\ ExitUnknown("TALOS UNKNOWN - No check specified. Usage: check-talos <cpu|memory|disk|services|etcd|load> [flags]")
            /\ pc' = "exit"
       ELSE /\ pc' = "validate"
            /\ UNCHANGED plugin
    /\ UNCHANGED <<build, lib, args, client, chk, calls, loc, result, err>>

\* (variant: the message is stored but main goes on to the client)
ValidateWithoutExit ==
    /\ pc = "validate"
    /\ \E msg \in {validate(args)} :
          IF msg # ""
          THEN ExitUnknown("TALOS " \o resolveCheckName(args) \o " UNKNOWN - " \o msg)
          ELSE UNCHANGED plugin
    /\ pc' = "newclient"
    /\ UNCHANGED <<build, lib, args, client, chk, calls, loc, result, err>>

\* main: validate(&args)
Validate ==
    /\ pc = "validate"
    /\ \E msg \in {validate(args)} :
          IF msg # ""
          THEN /\ ExitUnknown("TALOS " \o resolveCheckName(args) \o " UNKNOWN - "
                              \o msg)
               /\ pc' = "exit"
          ELSE /\ pc' = "newclient"
               /\ UNCHANGED plugin
    /\ UNCHANGED <<build, lib, args, client, chk, calls, loc, result, err>>

\* main: talos.NewClient, which succeeds or fails with an error
NewClient ==
    /\ pc = "newclient"
    /\ \E e \in Errors \cup {Nil} :
          IF e # Nil
          THEN /\ client' = "failed"
               /\ err' = e
               /\ plugin' = ApplyToPlugin(
                     mapGRPCError(resolveCheckName(args), e, args.Timeout), plugin)
               /\ pc' = "exit"
          ELSE /\ client' = "open"
               /\ pc' = "newcheck"
               /\ UNCHANGED <<plugin, err>>
    /\ UNCHANGED <<build, lib, args, chk, calls, loc, result>>

\* main: the check is instantiated from the flags
Construct ==
    /\ pc = "newcheck"
    /\ \E built \in {NewCheck(args)} :
          IF built.ok
          THEN /\ chk' = built.chk
               /\ pc' = "run"
               /\ UNCHANGED plugin
          ELSE /\ ExitUnknown("TALOS " \o resolveCheckName(args) \o " UNKNOWN - "
                              \o built.err)
               /\ pc' = "exit"
               /\ UNCHANGED chk
    /\ UNCHANGED <<build, lib, args, client, calls, loc, result, err>>

\* CPUCheck.Run
CPURun ==
    /\ pc = "run" /\ chk.kind = "cpu"
    /\ \E o \in CPUStatOutcomes :
          /\ calls' = Append(calls, Call("SystemStat", o))
          /\ Return(CPUCheckRun(chk, o))
    /\ UNCHANGED <<build, lib, args, client, chk, loc, plugin>>

\* MemoryCheck.Run
MemoryRun ==
    /\ pc = "run" /\ chk.kind = "memory"
    /\ \E o \in MemoryOutcomes :
          /\ calls' = Append(calls, Call("Memory", o))
          /\ Return(MemoryCheckRun(chk, o))
    /\ UNCHANGED <<build, lib, args, client, chk, loc, plugin>>

\* DiskCheck.Run
DiskRun ==
    /\ pc = "run" /\ chk.kind = "disk"
    /\ \E o \in MountsOutcomes :
          /\ calls' = Append(calls, Call("Mounts", o))
          /\ Return(DiskCheckRun(chk, o))
    /\ UNCHANGED <<build, lib, args, client, chk, loc, plugin>>

\* ServicesCheck.Run
ServicesRun ==
    /\ pc = "run" /\ chk.kind = "services"
    /\ \E o \in ServiceListOutcomes :
          \E sorted \in SortedById(UnhealthyList(chk, o)) :
             /\ calls' = Append(calls, Call("ServiceList", o))
             /\ Return(ServicesCheckRun(chk, o, sorted))
    /\ UNCHANGED <<build, lib, args, client, chk, loc, plugin>>

\* EtcdCheck.Run, step 1: EtcdStatus
EtcdStatusStep ==
    /\ pc = "run" /\ chk.kind = "etcd"
    /\ \E o \in EtcdStatusOutcomes :
          /\ calls' = Append(calls, Call("EtcdStatus", o))
          /\ IF o.err # Nil THEN Return(Failed(o.err)) /\ UNCHANGED loc
             ELSE IF IsEmpty(o)
             THEN Return(Returned(EmptyResponse("ETCD"))) /\ UNCHANGED loc
             ELSE IF o.resp.Messages[1].MemberStatus = Nil
             THEN /\ Return(Returned(BareResult(Unknown, "ETCD",
                                     "No etcd status data in response")))
                  /\ UNCHANGED loc
             ELSE /\ loc' = [memberStatus |-> o.resp.Messages[1].MemberStatus]
                  /\ pc' = "etcd_members"
                  /\ UNCHANGED <<result, err>>
    /\ UNCHANGED <<build, lib, args, client, chk, plugin>>

\* EtcdCheck.Run, step 2: EtcdMemberList
EtcdMemberListStep ==
    /\ pc = "etcd_members"
    /\ \E o \in EtcdMemberListOutcomes :
          /\ calls' = Append(calls, Call("EtcdMemberList", o))
          /\ IF o.err # Nil THEN Return(Failed(o.err)) /\ UNCHANGED loc
             ELSE IF IsEmpty(o)
             THEN /\ Return(Returned(BareResult(Unknown, "ETCD",
                                     "Empty member list response from Talos API")))
                  /\ UNCHANGED loc
             ELSE /\ loc' = [memberStatus |-> loc.memberStatus,
                             memberCount |-> Len(o.resp.Messages[1].Members)]
                  /\ pc' = "etcd_alarms"
                  /\ UNCHANGED <<result, err>>
    /\ UNCHANGED <<build, lib, args, client, chk, plugin>>

\* EtcdCheck.Run, step 3: EtcdAlarmList, then the evaluation
EtcdAlarmListStep ==
    /\ pc = "etcd_alarms"
    /\ \E o \in EtcdAlarmListOutcomes :
          /\ calls' = Append(calls, Call("EtcdAlarmList", o))
          /\ IF o.err # Nil THEN Return(Failed(o.err))
             ELSE Return(Returned(EtcdEvaluate(chk, loc.memberStatus,
                                     loc.memberCount, collectAlarms(o.resp))))
    /\ UNCHANGED <<build, lib, args, client, chk, loc, plugin>>

\* LoadCheck.Run: LoadAvg; with both thresholds configured the evaluation
\* follows at once, otherwise SystemStat is queried next
LoadAvgStep ==
    /\ pc = "run" /\ chk.kind = "load"
    /\ \E o \in LoadAvgOutcomes :
          /\ calls' = Append(calls, Call("LoadAvg", o))
          /\ IF o.err # Nil THEN Return(Failed(o.err)) /\ UNCHANGED loc
             ELSE IF IsEmpty(o)
             THEN Return(Returned(EmptyResponse("LOAD"))) /\ UNCHANGED loc
             ELSE IF NeedsCPUCount(chk)
             THEN /\ loc' = [loadAvg |-> o.resp.Messages[1]]
                  /\ pc' = "load_stat"
                  /\ UNCHANGED <<result, err>>
             ELSE /\ Return(Returned(LoadEvaluate(chk, o.resp.Messages[1],
                                                  chk.Warning, chk.Critical)))
                  /\ UNCHANGED loc
    /\ UNCHANGED <<build, lib, args, client, chk, plugin>>

\* LoadCheck.Run: SystemStat for the CPU count, then the evaluation
LoadSystemStatStep ==
    /\ pc = "load_stat"
    /\ \E o \in CPUCountOutcomes :
          /\ calls' = Append(calls, Call("SystemStat", o))
          /\ Return(LoadCalibrate(chk, loc.loadAvg, o))
    /\ UNCHANGED <<build, lib, args, client, chk, loc, plugin>>

\* main: Run returned; an error is mapped to a result, and the result is
\* stored in the plugin
Finish ==
    /\ pc = "returned"
    /\ plugin' = IF err # Nil
                 THEN ApplyToPlugin(
                         mapGRPCError(resolveCheckName(args), err, args.Timeout),
                         plugin)
                 ELSE ApplyToPlugin(result, plugin)
    /\ pc' = "exit"
    /\ UNCHANGED <<build, lib, args, client, chk, calls, loc, result, err>>

Next ==
    \/ ParseArgs
    \/ Validate
    \/ NewClient
    \/ Construct
    \/ CPURun
    \/ MemoryRun
    \/ DiskRun
    \/ ServicesRun
    \/ EtcdStatusStep
    \/ EtcdMemberListStep
    \/ EtcdAlarmListStep
    \/ LoadAvgStep
    \/ LoadSystemStatStep
    \/ Finish

Spec == Init /\ [][Next]_vars

(***************************************************************************)
(* Package threshold on its own: a text is parsed, the range is evaluated  *)
(* on a value, rendered, and the rendered text parsed again.  Package      *)
(* output on its own: a Status is rendered, turned into an exit code and   *)
(* applied to a plugin; a measurement is rendered; a result is rendered.   *)
(***************************************************************************)
\* The texts handed to Parse: the five notations and their inverted forms,
\* omitted bounds, fractions, negative numbers, infinities, numbers int64
\* cannot hold, texts that are no range.
ThresholdTexts ==
    {"", "10", "10:", "~:10", "10:20", "@10:20", "@~:20", "@10", "@10:",
     ":", "~:", "@:", "@", "~", "@~", "5:~", "~:~", ":5", "@:5", "0", "@0:0",
     "20:10", "@20:10", "10:10", "abc", "1x", "10:2x", "x:10", "1:2:3", "10 ",
     "1.5", "0.25:1.5", "1.", ".5", ".", "-", "+5", "-5:5", "-5", "5:-5",
     "~:-5", "-7:-5", "@-0.5:0.5", "1.5:1.25",
     "Inf", "10:Inf", "-Inf:5", "5:-Inf", "+Inf:", "~:inf", "Inf:5",
     "32767", "32768", "40000", "~:40000", "40000:", "@40000:50000",
     "-32768", "-40000:5", "~:-40000"}

\* the values a range is evaluated on: its bounds and their neighbours
SampleValues(t) ==
    {v \in {t.Start - 1, t.Start, t.Start + 1, t.End - 1, t.End, t.End + 1} :
        v >= NegInf /\ v <= PosInf}

\* The Status values handed to package output: the four constants and
\* integers that are none of them (Status is an int)
StatusValues == {-1, 0, 1, 2, 3, 4, 7, 255}

\* The measurements handed to PerfDatum.String: every combination of set
\* and unset unit, warn, crit, min and max, on whole, fractional and
\* negative values
LibPerfData ==
    {PerfDatum("cpu_usage", v, u, w, c, mn, mx) :
        v \in {0, 3420, 123, 0 - 500}, u \in {"", "%", "B"}, w \in {"", "80"},
        c \in {"", "@10:20"}, mn \in {"", "0"}, mx \in {"", "100"}}

\* The results handed to Result.String: with and without measurements, with
\* and without long text, one summary holding a pipe of its own
LibResults ==
    {Result(s, "CPU", sm, d, pd) :
        s \in {OK, Critical, 7},
        sm \in {"CPU usage 34.2%", "", "Talos API error: a | b"},
        d \in {"", "kubelet: state=Finished", "apid: down\netcd: down"},
        pd \in {<<>>,
                << PerfDatum("cpu_usage", 3420, "%", "80", "90", "0", "100") >>,
                << PerfDatum("memory_used", 200, "B", "", "", "0", "300"),
                   PerfDatum("memory_total", 300, "B", "", "", "0", "") >>,
                << PerfDatum("services_total", 0, "", "", "", "", "") >>}}

LibInit ==
    /\ build \in Builds
    /\ lib \in {[pc |-> "start", text |-> tx, parsed |-> Nil, value |-> Nil,
                 violated |-> Nil, rendered |-> Nil, reparsed |-> Nil] :
                    tx \in ThresholdTexts}
             \cup {[pc |-> "status", status |-> s, word |-> Nil, code |-> Nil] :
                      s \in StatusValues}
             \cup {[pc |-> "datum", datum |-> pd, rendered |-> Nil] :
                      pd \in LibPerfData}
             \cup {[pc |-> "result", result |-> r, rendered |-> Nil] :
                      r \in LibResults}
    /\ args = Nil
    /\ pc = "lib"
    /\ client = "none"
    /\ chk = Nil
    /\ calls = <<>>
    /\ loc = Nil
    /\ result = Nil
    /\ err = Nil
    /\ plugin = NewPlugin

\* threshold.Parse(text)
LibParse ==
    /\ lib.pc = "start"
    /\ lib' = [lib EXCEPT !.pc = "parsed", !.parsed = Parse(lib.text)]
    /\ UNCHANGED <<build, args, pc, client, chk, calls, loc, result, err, plugin>>

\* t.Violated(value)
LibViolated ==
    /\ lib.pc = "parsed" /\ lib.parsed.ok
    /\ \E value \in SampleValues(lib.parsed.t) :
          lib' = [lib EXCEPT !.pc = "evaluated", !.value = value,
                             !.violated = Violated(lib.parsed.t, value)]
    /\ UNCHANGED <<build, args, pc, client, chk, calls, loc, result, err, plugin>>

\* t.String()
LibString ==
    /\ lib.pc = "parsed" /\ lib.parsed.ok
    /\ lib' = [lib EXCEPT !.pc = "rendered", !.rendered = String(lib.parsed.t)]
    /\ UNCHANGED <<build, args, pc, client, chk, calls, loc, result, err, plugin>>

\* threshold.Parse(t.String())
LibReparse ==
    /\ lib.pc = "rendered"
    /\ lib' = [lib EXCEPT !.pc = "reparsed", !.reparsed = Parse(lib.rendered)]
    /\ UNCHANGED <<build, args, pc, client, chk, calls, loc, result, err, plugin>>

\* s.String()
LibStatusString ==
    /\ lib.pc = "status"
    /\ lib' = [lib EXCEPT !.pc = "worded", !.word = StatusString(lib.status)]
    /\ UNCHANGED <<build, args, pc, client, chk, calls, loc, result, err, plugin>>

\* s.ExitCode()
LibExitCode ==
    /\ lib.pc = "worded"
    /\ lib' = [lib EXCEPT !.pc = "coded", !.code = ExitCode(lib.status)]
    /\ UNCHANGED <<build, args, pc, client, chk, calls, loc, result, err, plugin>>

\* (&Result{Status: s, ...}).ApplyToPlugin(plugin)
LibApplyToPlugin ==
    /\ lib.pc = "coded"
    /\ lib' = [lib EXCEPT !.pc = "applied"]
    /\ plugin' = ApplyToPlugin(BareResult(lib.status, "CPU", "summary"), plugin)
    /\ UNCHANGED <<build, args, pc, client, chk, calls, loc, result, err>>

\* pd.String()
LibPerfDatumString ==
    /\ lib.pc = "datum"
    /\ lib' = [lib EXCEPT !.pc = "datum_rendered",
                          !.rendered = PerfDatumString(lib.datum)]
    /\ UNCHANGED <<build, args, pc, client, chk, calls, loc, result, err, plugin>>

\* r.String()
LibResultString ==
    /\ lib.pc = "result"
    /\ lib' = [lib EXCEPT !.pc = "result_rendered",
                          !.rendered = ResultString(lib.result)]
    /\ UNCHANGED <<build, args, pc, client, chk, calls, loc, result, err, plugin>>

LibNext ==
    \/ LibParse
    \/ LibViolated
    \/ LibString
    \/ LibReparse
    \/ LibStatusString
    \/ LibExitCode
    \/ LibApplyToPlugin
    \/ LibPerfDatumString
    \/ LibResultString

LibSpec == LibInit /\ [][LibNext]_vars

(***************************************************************************)
(* What the properties below talk about.                                   *)
(***************************************************************************)
\* Run was called and has returned
RunReturned == pc \in {"returned", "exit"} /\ calls # <<>>

\* the first message of the i-th retrieval
Msg(i) == calls[i].out.resp.Messages[1]

\* the operations Run called, in order
Ops == [i \in 1..Len(calls) |-> calls[i].op]

\* the etcd check: the three retrievals went through and the structural
\* assertions (leader, member count, alarms) all pass
EtcdAssertionsPass ==
    /\ Len(calls) = 3
    /\ Msg(1).MemberStatus.Leader # 0
    /\ Len(Msg(2).Members) >= chk.MinMembers
    /\ Len(collectAlarms(calls[3].out.resp)) = 0

\* Run compared a value with the thresholds
ThresholdEvaluated ==
    /\ RunReturned
    /\ result # Nil
    /\ chk.kind # "services"
    /\ result.PerfData # <<>>
    /\ chk.kind = "etcd" => EtcdAssertionsPass

\* the value that was compared: the usage percentage, the DB size, the load
\* of the selected period
EvaluatedValue ==
    IF chk.kind = "load" THEN SelectedLoad(chk, Msg(1))
    ELSE result.PerfData[1].Value

\* the thresholds in force: the configured ones, or for the load check the
\* ones computed from the CPU count
EffectiveWarning ==
    IF chk.kind = "load" /\ chk.Warning = Nil
    THEN AutoThreshold(1, Len(Msg(2).Cpu)) ELSE chk.Warning

EffectiveCritical ==
    IF chk.kind = "load" /\ chk.Critical = Nil
    THEN AutoThreshold(2, Len(Msg(2).Cpu)) ELSE chk.Critical

\* the retrievals a check needs
NeededOps ==
    CASE chk.kind = "cpu" -> <<"SystemStat">>
      [] chk.kind = "memory" -> <<"Memory">>
      [] chk.kind = "disk" -> <<"Mounts">>
      [] chk.kind = "services" -> <<"ServiceList">>
      [] chk.kind = "etcd" -> <<"EtcdStatus", "EtcdMemberList", "EtcdAlarmList">>
      [] chk.kind = "load" ->
           IF chk.Warning = Nil \/ chk.Critical = Nil
           THEN <<"LoadAvg", "SystemStat">> ELSE <<"LoadAvg">>

\* WARNING is what Run returned or what the plugin exits with
WarningReported ==
    \/ result # Nil /\ result.Status = Warning
    \/ plugin.ExitStatusCode = ExitCode(Warning)

(***************************************************************************)
(* C1.  In every threshold-based evaluation (CPU, memory, disk usage       *)
(* percentage, etcd DB size once the structural assertions passed, load of *)
(* the selected period), a value that violates both the critical and the   *)
(* warning range gives CRITICAL, never WARNING.                            *)
(***************************************************************************)
C1_CriticalPrecedence ==
    (/\ ThresholdEvaluated
     /\ Violated(EffectiveCritical, EvaluatedValue)
     /\ Violated(EffectiveWarning, EvaluatedValue))
    => /\ result.Status = Critical
       /\ pc = "exit" => plugin.ExitStatusCode = ExitCode(Critical)

C1_Witness ==
    /\ ThresholdEvaluated
    /\ chk.kind = "cpu"
    /\ Violated(chk.Critical, EvaluatedValue)
    /\ Violated(chk.Warning, EvaluatedValue)
    /\ result.Status = Critical

C3_ErrorIffRetrievalFailed ==
    RunReturned =>
       /\ err # Nil <=> \E i \in 1..Len(calls) : Got(calls[i]) = "error"
       /\ err # Nil => result = Nil /\ err = calls[Len(calls)].out.err
       /\ err = Nil => result # Nil

C3_Witness ==
    /\ RunReturned
    /\ Len(calls) = 3
    /\ Got(calls[3]) = "error"
    /\ err # Nil
    /\ result = Nil

(***************************************************************************)
(* C4.  A result carries measurements only if the retrieval that produced  *)
(* them returned data: validation failures, client and connectivity        *)
(* errors, mapped gRPC errors and empty or unusable responses carry none.  *)
(***************************************************************************)
\* the retrievals whose numbers end up in the measurements of a check
MeasurementOps ==
    CASE chk.kind = "cpu" -> {"SystemStat"}
      [] chk.kind = "memory" -> {"Memory"}
      [] chk.kind = "disk" -> {"Mounts"}
      [] chk.kind = "services" -> {"ServiceList"}
      [] chk.kind = "etcd" -> {"EtcdStatus", "EtcdMemberList"}
      [] chk.kind = "load" -> {"LoadAvg"}

C5_EtcdAssertionOrder ==
    (RunReturned /\ chk.kind = "etcd" /\ Len(calls) = 3 /\ result # Nil) =>
       IF Msg(1).MemberStatus.Leader = 0
       THEN /\ result.Status = Critical
            /\ result.Summary = "No leader elected"
       ELSE IF Len(Msg(2).Members) < chk.MinMembers
       THEN /\ result.Status = Critical
            /\ result.Summary = "Member count " \o FormatInt(Len(Msg(2).Members))
                                 \o " below minimum " \o FormatInt(chk.MinMembers)
       ELSE IF Len(collectAlarms(calls[3].out.resp)) > 0
       THEN /\ result.Status = Critical
            /\ result.Summary = "Active alarm: "
                                 \o JoinStrings(collectAlarms(calls[3].out.resp))
       ELSE /\ result.Status =
                  IF Violated(chk.Critical, Msg(1).MemberStatus.DbSize * Scale)
                  THEN Critical
                  ELSE IF Violated(chk.Warning, Msg(1).MemberStatus.DbSize * Scale)
                  THEN Warning
                  ELSE OK
            /\ \/ HasPrefix(result.Summary, "Leader, ")
               \/ HasPrefix(result.Summary, "Follower, ")

C5_Witness ==
    /\ RunReturned /\ chk.kind = "etcd" /\ Len(calls) = 3 /\ result # Nil
    /\ Msg(1).MemberStatus.Leader = 0
    /\ Len(Msg(2).Members) < chk.MinMembers
    /\ Len(collectAlarms(calls[3].out.resp)) > 0
    /\ Violated(chk.Critical, Msg(1).MemberStatus.DbSize * Scale)
    /\ result.Summary = "No leader elected"

(***************************************************************************)
(* C6.  In the etcd check the measurements of the retrieved numbers are on *)
(* every decision made once the data has been fetched, a CRITICAL from a   *)
(* failed structural assertion included: whether they are present depends  *)
(* on the retrievals, not on the outcome of the evaluation.                *)
(***************************************************************************)
\* the status and the member list have been fetched and the alarm list was
\* asked for without an error
EtcdDataFetched ==
    /\ Len(calls) = 3
    /\ Got(calls[1]) = "data" /\ Msg(1).MemberStatus # Nil
    /\ Got(calls[2]) = "data"
    /\ Got(calls[3]) # "error"

C6_EtcdMeasurementsOnEveryDecision ==
    (RunReturned /\ chk.kind = "etcd" /\ result # Nil) =>
       IF EtcdDataFetched
       THEN /\ Len(result.PerfData) = 3
            /\ result.PerfData[1].Label = "etcd_dbsize"
            /\ result.PerfData[1].Value = Msg(1).MemberStatus.DbSize * Scale
            /\ result.PerfData[2].Label = "etcd_dbsize_in_use"
            /\ result.PerfData[2].Value = Msg(1).MemberStatus.DbSizeInUse * Scale
            /\ result.PerfData[3].Label = "etcd_members"
            /\ result.PerfData[3].Value = Len(Msg(2).Members) * Scale
       ELSE result.PerfData = <<>>

C6_Witness ==
    /\ RunReturned /\ chk.kind = "etcd" /\ result # Nil
    /\ EtcdDataFetched
    /\ Msg(1).MemberStatus.Leader = 0
    /\ ~Violated(chk.Warning, Msg(1).MemberStatus.DbSize * Scale)
    /\ result.Status = Critical
    /\ Len(result.PerfData) = 3

(***************************************************************************)
(* C7.  The load check asks SystemStat for the CPU count exactly when at   *)
(* least one threshold is not configured, and only after the load average  *)
(* came back with data; with both thresholds configured it never asks.     *)
(***************************************************************************)
C7_SystemStatOnlyWhenNeeded ==
    (calls # <<>> /\ chk.kind = "load") =>
       /\ calls[1].op = "LoadAvg"
       /\ \A i \in 1..Len(calls) :
             calls[i].op = "SystemStat" =>
                /\ i = 2
                /\ Got(calls[1]) = "data"
                /\ chk.Warning = Nil \/ chk.Critical = Nil
       /\ (/\ RunReturned
           /\ Got(calls[1]) = "data"
           /\ chk.Warning = Nil \/ chk.Critical = Nil)
          => Len(calls) = 2 /\ calls[2].op = "SystemStat"
       /\ (chk.Warning # Nil /\ chk.Critical # Nil) => Len(calls) = 1

C7_Witness ==
    /\ RunReturned /\ chk.kind = "load"
    /\ chk.Warning # Nil /\ chk.Critical = Nil
    /\ Len(calls) = 2
    /\ calls[2].op = "SystemStat"

(***************************************************************************)
(* C8.  A zero denominator or scale factor (total CPU time 0, total memory *)
(* 0, size 0 of the matched mount, CPU count 0 when the load check         *)
(* computes its thresholds) gives an UNKNOWN decision record without       *)
(* measurements: never OK, never a computed value, never an error.         *)
(***************************************************************************)
\* the sum of the CPU time counters
CPUTotalTime(cpu) ==
    cpu.User + cpu.Nice + cpu.System + cpu.Idle + cpu.Iowait + cpu.Irq
    + cpu.SoftIrq + cpu.Steal

\* the first entry of the response that is mounted on m has size 0
MatchedMountIsEmpty(stats, m) ==
    \E i \in 1..Len(stats) :
       /\ stats[i].MountedOn = m
       /\ stats[i].Size = 0
       /\ \A j \in 1..(i - 1) : stats[j].MountedOn # m

ZeroDenominator ==
    /\ RunReturned
    /\ Got(calls[Len(calls)]) = "data"
    /\ CASE chk.kind = "cpu" ->
              Msg(1).CpuTotal # Nil /\ CPUTotalTime(Msg(1).CpuTotal) = 0
         [] chk.kind = "memory" ->
              Msg(1).Meminfo # Nil /\ Msg(1).Meminfo.Memtotal = 0
         [] chk.kind = "disk" -> MatchedMountIsEmpty(Msg(1).Stats, chk.Mount)
         [] chk.kind = "load" -> Len(calls) = 2 /\ Len(Msg(2).Cpu) = 0
         [] OTHER -> FALSE

C8_ZeroDenominatorIsUnknown ==
    ZeroDenominator =>
       /\ err = Nil
       /\ result # Nil
       /\ result.Status = Unknown
       /\ result.PerfData = <<>>
       /\ pc = "exit" =>
             plugin.ExitStatusCode = ExitCode(Unknown) /\ plugin.PerfData = <<>>

C8_Witness ==
    /\ ZeroDenominator
    /\ chk.kind = "load"
    /\ pc = "exit"
    /\ plugin.ExitStatusCode = ExitCode(Unknown)

(***************************************************************************)
(* C9.  In the disk check, when no entry of the returned collection is     *)
(* mounted on the configured mount, the result is UNKNOWN (not CRITICAL)   *)
(* without measurements, whatever the sizes and availabilities of the      *)
(* other entries.                                                          *)
(***************************************************************************)
NoMatchingMount ==
    /\ RunReturned
    /\ chk.kind = "disk"
    /\ Got(calls[1]) = "data"
    /\ \A i \in 1..Len(Msg(1).Stats) : Msg(1).Stats[i].MountedOn # chk.Mount

C9_AbsentMountIsUnknown ==
    NoMatchingMount =>
       /\ err = Nil
       /\ result # Nil
       /\ result.Status = Unknown
       /\ result.PerfData = <<>>

C9_Witness ==
    /\ NoMatchingMount
    /\ Len(Msg(1).Stats) = 2
    /\ Msg(1).Stats[1].Size > 0 /\ Msg(1).Stats[1].Available = 0
    /\ Msg(1).Stats[2].Size = 0
    /\ result.Status = Unknown

(***************************************************************************)
(* C10.  The services check returns CRITICAL exactly when at least one     *)
(* monitored service fails the predicate "state is Running and the health  *)
(* report says healthy or unknown", returns OK when no monitored service   *)
(* of the list fails it, and never returns WARNING.                        *)
(***************************************************************************)
\* the service passes the include and exclude lists of the command line
IsMonitored(svc) ==
    /\ args.Include = {} \/ svc.Id \in args.Include
    /\ svc.Id \notin args.Exclude

SatisfiesPredicate(svc) ==
    /\ svc.State = "Running"
    /\ svc.Health # Nil
    /\ svc.Health.Healthy \/ svc.Health.Unknown

SomeMonitoredServiceFails ==
    /\ Got(calls[1]) = "data"
    /\ \E i \in 1..Len(Msg(1).Services) :
          IsMonitored(Msg(1).Services[i]) /\ ~SatisfiesPredicate(Msg(1).Services[i])

C10_ServicesCriticalIffSomeFails ==
    (RunReturned /\ chk.kind = "services") =>
       /\ (result # Nil /\ result.Status = Critical) <=> SomeMonitoredServiceFails
       /\ (/\ Got(calls[1]) = "data"
           /\ Len(Msg(1).Services) > 0
           /\ ~SomeMonitoredServiceFails)
          => result # Nil /\ result.Status = OK
       /\ result # Nil => result.Status # Warning
       /\ plugin.ExitStatusCode # ExitCode(Warning)

C10_Witness ==
    /\ RunReturned /\ chk.kind = "services"
    /\ Got(calls[1]) = "data"
    /\ Len(Msg(1).Services) = 2
    /\ IsMonitored(Msg(1).Services[1])
    /\ Msg(1).Services[1].State = "Finished"
    /\ Msg(1).Services[1].Health # Nil /\ Msg(1).Services[1].Health.Healthy
    /\ ~IsMonitored(Msg(1).Services[2])
    /\ result.Status = Critical

(***************************************************************************)
(* C11.  In the services check a service taken out of the monitored set by *)
(* the exclude list, or not named by a configured include list, never      *)
(* affects the severity, the counts or the detail text: the result is one  *)
(* the check also gives when such a service has any other state and        *)
(* health, and the counts are those of the monitored services alone.       *)
(***************************************************************************)
\* the service lists that differ from l in the state and health of one
\* service that is not monitored (every other change of unmonitored
\* services is a chain of these)
SameMonitored(l) ==
    UNION {{[l EXCEPT ![i] = s] : s \in {x \in Services : x.Id = l[i].Id}} :
              i \in {k \in 1..Len(l) : ~IsMonitored(l[k])}}

MonitoredCount(l) == Cardinality({i \in 1..Len(l) : IsMonitored(l[i])})

FailingCount(l) ==
    Cardinality({i \in 1..Len(l) : IsMonitored(l[i]) /\ ~SatisfiesPredicate(l[i])})

C11_UnmonitoredServiceHasNoEffect ==
    (/\ RunReturned /\ chk.kind = "services"
     /\ Got(calls[1]) = "data"
     /\ Len(Msg(1).Services) > 0)
    => /\ \A m \in SameMonitored(Msg(1).Services) :
             \E sorted \in SortedById(UnhealthyList(chk,
                              Response(Messages(<<[Services |-> m]>>)))) :
                ServicesCheckRun(chk, Response(Messages(<<[Services |-> m]>>)),
                                 sorted).result = result
       /\ result.PerfData[1].Value = MonitoredCount(Msg(1).Services) * Scale
       /\ result.PerfData[3].Value = FailingCount(Msg(1).Services) * Scale
       /\ result.Status = IF FailingCount(Msg(1).Services) = 0 THEN OK ELSE Critical

C11_Witness ==
    /\ RunReturned /\ chk.kind = "services"
    /\ Got(calls[1]) = "data"
    /\ Len(Msg(1).Services) = 2
    /\ args.Exclude = {"etcd"}
    /\ Msg(1).Services[1] = Service("etcd", "Finished", Nil)
    /\ Msg(1).Services[2] = Service("apid", "Running", Health(TRUE, FALSE, ""))
    /\ result.Status = OK
    /\ result.PerfData[1].Value = 1 * Scale

(***************************************************************************)
(* C12.  The interval of a parsed range is closed: at a finite lower bound *)
(* and at a finite upper bound Violated is false for a plain range and     *)
(* true for an inverted (@) range.                                         *)
(***************************************************************************)
Finite(v) == v # PosInf /\ v # NegInf

\* the value is the lower bound of the range (a range "~:n" has none)
AtLowerBound ==
    /\ ~lib.parsed.t.StartInf
    /\ Finite(lib.parsed.t.Start)
    /\ lib.value = lib.parsed.t.Start

AtUpperBound ==
    /\ Finite(lib.parsed.t.End)
    /\ lib.value = lib.parsed.t.End

C12_BoundsAreInsideTheRange ==
    (lib # Nil /\ lib.pc = "evaluated" /\ (AtLowerBound \/ AtUpperBound))
    => lib.violated = lib.parsed.t.Inside

C12_Witness ==
    /\ lib # Nil /\ lib.pc = "evaluated"
    /\ lib.text = "@10:20"
    /\ AtUpperBound /\ ~AtLowerBound
    /\ lib.violated

(***************************************************************************)
(* C13.  For every text Parse accepts, Parse(String(Parse(text))) succeeds *)
(* and gives an equivalent range: same lower and upper bound, same         *)
(* inversion flag, same unbounded-below flag.                              *)
(* This fails for a whole-number bound int64 cannot hold: formatFloat      *)
(* renders it through int64(v).                                            *)
(***************************************************************************)
C13_ParseStringParseRoundTrip ==
    (lib # Nil /\ lib.pc = "reparsed")
    => /\ lib.reparsed.ok
       /\ lib.reparsed.t.Start = lib.parsed.t.Start
       /\ lib.reparsed.t.End = lib.parsed.t.End
       /\ lib.reparsed.t.Inside = lib.parsed.t.Inside
       /\ lib.reparsed.t.StartInf = lib.parsed.t.StartInf

(***************************************************************************)
(* C14.  Parse fails for empty input, for a bound token that is not a      *)
(* number ("~" is taken as the start token only; a bound left out next to  *)
(* the colon is no token), and for a finite lower bound above a finite     *)
(* upper bound.  A range it returns has the bounds its tokens name, and    *)
(* lower bound <= upper bound when both are finite.                        *)
(***************************************************************************)
\* the text without the "@" prefix
RangeBody(text) ==
    IF Len(text) > 0 /\ SubSeq(text, 1, 1) = "@" THEN SubSeq(text, 2, Len(text))
    ELSE text

\* the position of the first colon of s, 0 if it has none
FirstColon(s) ==
    IF \E i \in 1..Len(s) : SubSeq(s, i, i) = ":"
    THEN CHOOSE i \in 1..Len(s) :
            /\ SubSeq(s, i, i) = ":"
            /\ \A j \in 1..(i - 1) : SubSeq(s, j, j) # ":"
    ELSE 0

HasColon(text) == FirstColon(RangeBody(text)) > 0

StartToken(text) == SubSeq(RangeBody(text), 1, FirstColon(RangeBody(text)) - 1)

EndToken(text) ==
    SubSeq(RangeBody(text), FirstColon(RangeBody(text)) + 1, Len(RangeBody(text)))

Unsigned(tok) ==
    IF Len(tok) > 0 /\ SubSeq(tok, 1, 1) \in {"+", "-"} THEN SubSeq(tok, 2, Len(tok))
    ELSE tok

\* tok is a number: a signed decimal with at least one digit and at most
\* one point, or a signed infinity
IsNumber(tok) ==
    \/ Unsigned(tok) \in InfWords
    \/ /\ \A i \in 1..Len(Unsigned(tok)) :
             SubSeq(Unsigned(tok), i, i) \in Digits \cup {"."}
       /\ \E i \in 1..Len(Unsigned(tok)) : SubSeq(Unsigned(tok), i, i) \in Digits
       /\ Cardinality({i \in 1..Len(Unsigned(tok)) :
                          SubSeq(Unsigned(tok), i, i) = "."}) <= 1

\* the bounds the tokens of a text name
NamedStart(text) ==
    IF ~HasColon(text) \/ StartToken(text) \in {"", "~"} THEN 0
    ELSE ParseFloat(StartToken(text)).v

NamedEnd(text) ==
    IF HasColon(text) /\ EndToken(text) = "" THEN PosInf
    ELSE ParseFloat(EndToken(text)).v

BadStartToken(text) ==
    HasColon(text) /\ StartToken(text) \notin {"", "~"} /\ ~IsNumber(StartToken(text))

BadEndToken(text) ==
    /\ ~IsNumber(EndToken(text))
    /\ HasColon(text) => EndToken(text) # ""

\* Parse was called on the text and has returned
ParsedOnItsOwn ==
    lib # Nil /\ lib.pc \in {"parsed", "evaluated", "rendered", "reparsed"}

LoadEvaluated ==
    /\ RunReturned /\ chk.kind = "load"
    /\ result # Nil /\ result.PerfData # <<>>

\* the load and the measurement of the configured period
LoadOfPeriod ==
    CASE args.Period = "1" -> Msg(1).Load1
      [] args.Period = "5" -> Msg(1).Load5
      [] args.Period = "15" -> Msg(1).Load15

DatumOfPeriod ==
    CASE args.Period = "1" -> result.PerfData[1]
      [] args.Period = "5" -> result.PerfData[2]
      [] args.Period = "15" -> result.PerfData[3]

\* the range 0..n
UpTo(n) == [Start |-> 0, End |-> n * Scale, Inside |-> FALSE, StartInf |-> FALSE]

ExpectedLoadWarning ==
    IF args.Warning = "" THEN UpTo(Len(Msg(2).Cpu)) ELSE Parse(args.Warning).t

ExpectedLoadCritical ==
    IF args.Critical = "" THEN UpTo(2 * Len(Msg(2).Cpu)) ELSE Parse(args.Critical).t

C15_LoadAutoThresholds ==
    LoadEvaluated =>
       /\ DatumOfPeriod.Warn = String(ExpectedLoadWarning)
       /\ DatumOfPeriod.Crit = String(ExpectedLoadCritical)
       /\ result.Status =
             IF Violated(ExpectedLoadCritical, LoadOfPeriod) THEN Critical
             ELSE IF Violated(ExpectedLoadWarning, LoadOfPeriod) THEN Warning
             ELSE OK
       /\ (/\ args.Warning = "" /\ args.Critical = ""
           /\ Len(Msg(2).Cpu) = 4 /\ LoadOfPeriod = 456)
          => /\ result.Status = Warning
             /\ DatumOfPeriod.Warn = "4"
             /\ DatumOfPeriod.Crit = "8"

C15_Witness ==
    /\ LoadEvaluated
    /\ args.Warning = "" /\ args.Critical = ""
    /\ Len(Msg(2).Cpu) = 4
    /\ LoadOfPeriod = 456
    /\ result.Status = Warning
    /\ DatumOfPeriod.Warn = "4" /\ DatumOfPeriod.Crit = "8"

(***************************************************************************)
(* C16.  When the collection a check evaluates is empty (a response        *)
(* without messages, no mount entries, no services) the severity is        *)
(* UNKNOWN; an empty collection is never reported as OK.                   *)
(* As stated this fails for the etcd alarm list: a response without        *)
(* messages is taken as "no active alarm" and the check goes on.           *)
(***************************************************************************)
\* the mounts response has no entry, the service list no service
NoMountEntries ==
    chk.kind = "disk" /\ Got(calls[1]) = "data" /\ Len(Msg(1).Stats) = 0

NoServicesListed ==
    chk.kind = "services" /\ Got(calls[1]) = "data" /\ Len(Msg(1).Services) = 0

C17_EachRetrievalAtMostOnce ==
    /\ \A i, j \in 1..Len(calls) : i # j => calls[i].op # calls[j].op
    /\ chk # Nil =>
          /\ Len(calls) <= Len(NeededOps)
          /\ \A i \in 1..Len(calls) : calls[i].op = NeededOps[i]
    /\ \A i \in 1..Len(calls) :
          (\/ Got(calls[i]) = "error"
           \/ Got(calls[i]) = "empty" /\ calls[i].op # "EtcdAlarmList")
          => /\ i = Len(calls)
             /\ pc \in {"returned", "exit"}

C17_Witness ==
    /\ pc = "exit"
    /\ chk # Nil /\ chk.kind = "etcd"
    /\ Len(calls) = 2
    /\ Got(calls[1]) = "data"
    /\ Got(calls[2]) = "error"

(***************************************************************************)
(* C18.  Validation runs before any network activity and stops at the      *)
(* first failing rule: when a rule fails the plugin exits UNKNOWN (3) with *)
(* the message of the first failing rule and no performance data, and no   *)
(* client is created and no retrieval issued.                              *)
(***************************************************************************)
SomeCertGiven == args.CA # "" \/ args.Cert # "" \/ args.Key # ""

AllCertsGiven == args.CA # "" /\ args.Cert # "" /\ args.Key # ""

\* the threshold texts of the command lines that are no range: nothing, a
\* bound that is no number, a start above the end
NoRange == {"", "8x", "4:1"}

\* the validation rules the command line breaks
FailedRules ==
    {r \in {"V2", "V3", "V4", "V5", "V6", "V7", "V9", "V10", "V11", "V12"} :
        CASE r = "V2" -> ~SomeCertGiven /\ args.Config = ""
          [] r = "V3" -> SomeCertGiven /\ ~AllCertsGiven
          [] r = "V4" ->
                \/ AllCertsGiven /\
                      \E p \in {args.CA, args.Cert, args.Key} : Stat(p) # "file"
                \/ args.Config # "" /\ Stat(args.Config) # "file"
          [] r = "V5" -> SomeCertGiven /\ args.Endpoint = ""
          [] r = "V6" -> args.Timeout < 1 \/ args.Timeout > 120
          [] r = "V7" ->
                \/ /\ args.cmd \in {"cpu", "memory", "disk", "etcd"}
                   /\ args.Warning \in NoRange \/ args.Critical \in NoRange
                \/ /\ args.cmd = "load"
                   /\ \/ args.Warning # "" /\ args.Warning \in NoRange
                      \/ args.Critical # "" /\ args.Critical \in NoRange
          [] r = "V9" -> args.cmd = "services" /\ args.Include # {} /\ args.Exclude # {}
          [] r = "V10" -> args.cmd = "load" /\ args.Period \notin {"1", "5", "15"}
          [] r = "V11" -> args.cmd = "etcd" /\ args.MinMembers < 1
          [] r = "V12" ->
                args.cmd = "disk" /\ (args.Mount = "" \/ SubSeq(args.Mount, 1, 1) # "/")}

SeverityOfError ==
    IF err.code = "" THEN Critical
    ELSE IF err.code \in {"DeadlineExceeded", "Unavailable"} THEN Critical
    ELSE Unknown

CodeOfWord(word) ==
    CASE word = "OK" -> 0
      [] word = "WARNING" -> 1
      [] word = "CRITICAL" -> 2
      [] word = "UNKNOWN" -> 3

C20_ExitCodeMatchesStatusWord ==
    (lib # Nil /\ lib.pc = "applied")
    => /\ lib.code = CodeOfWord(lib.word)
       /\ plugin.ExitStatusCode = CodeOfWord(lib.word)
       /\ plugin.ServiceOutput = "TALOS CPU " \o lib.word \o " - summary"

(***************************************************************************)
(* C21.  The services decision carries detail text only when the result is *)
(* not OK, and then the text has exactly one line (name, state, health     *)
(* classification, last message) per failing monitored service, the lines  *)
(* in ascending order of service name whatever the order of the services   *)
(* in the response.                                                        *)
(***************************************************************************)
\* the positions of the failing monitored services in the response
FailingPositions ==
    {i \in 1..Len(Msg(1).Services) :
        IsMonitored(Msg(1).Services[i]) /\ ~SatisfiesPredicate(Msg(1).Services[i])}

\* f lists every failing monitored service once, names ascending
ListsFailingByName(f) ==
    /\ \A i, j \in DOMAIN f : i # j => f[i] # f[j]
    /\ \A i \in DOMAIN f : i + 1 \in DOMAIN f =>
          ~StrLess(Msg(1).Services[f[i + 1]].Id, Msg(1).Services[f[i]].Id)

PositionOfPeriod ==
    CASE args.Period = "1" -> 1
      [] args.Period = "5" -> 2
      [] args.Period = "15" -> 3

C22_LoadMeasurements ==
    LoadEvaluated =>
       /\ [i \in 1..Len(result.PerfData) |->
             <<result.PerfData[i].Label, result.PerfData[i].Value>>]
          = << <<"load1", Msg(1).Load1>>, <<"load5", Msg(1).Load5>>,
               <<"load15", Msg(1).Load15>> >>
       /\ args.Period \in {"1", "5", "15"}
       /\ \A i \in 1..3 :
             IF i = PositionOfPeriod
             THEN result.PerfData[i].Warn # "" /\ result.PerfData[i].Crit # ""
             ELSE result.PerfData[i].Warn = "" /\ result.PerfData[i].Crit = ""

C22_Witness ==
    /\ LoadEvaluated
    /\ args.Period = "15"
    /\ Msg(1) = LoadAvg(456, 250, 50)
    /\ result.PerfData[3].Warn = "1.5" /\ result.PerfData[3].Crit = "4"
    /\ result.PerfData[1].Warn = "" /\ result.PerfData[2].Crit = ""
    /\ result.PerfData[1].Value = 456

(***************************************************************************)
(* C23.  The text Result.String renders is the status line, then the       *)
(* " | " separator and the space-joined measurements if and only if the    *)
(* measurement list is not empty, then a newline and the detail text       *)
(* verbatim if and only if the detail text is not empty.                   *)
(***************************************************************************)
HasSuffix(s, p) == Len(s) >= Len(p) /\ SubSeq(s, Len(s) - Len(p) + 1, Len(s)) = p

\* "TALOS <CHECK> <STATUS> - <summary>"
StatusLine(r) ==
    "TALOS " \o r.CheckName \o " " \o StatusString(r.Status) \o " - " \o r.Summary

\* what follows the status line in the rendered text of the result
AfterStatusLine == SubSeq(lib.rendered, Len(StatusLine(lib.result)) + 1, Len(lib.rendered))

ResultRendered == lib # Nil /\ lib.pc = "result_rendered"

C23_ResultStringParts ==
    ResultRendered =>
       /\ HasPrefix(lib.rendered, StatusLine(lib.result))
       /\ IF lib.result.PerfData # <<>>
          THEN HasPrefix(AfterStatusLine, " | " \o FormatPerfData(lib.result.PerfData))
          ELSE ~HasPrefix(AfterStatusLine, " | ")
       /\ IF lib.result.Details # ""
          THEN HasSuffix(lib.rendered, "\n" \o lib.result.Details)
          ELSE Index(lib.rendered, "\n") = 0
       /\ Len(AfterStatusLine) =
             (IF lib.result.PerfData # <<>>
              THEN 3 + Len(FormatPerfData(lib.result.PerfData)) ELSE 0)
             + (IF lib.result.Details # "" THEN 1 + Len(lib.result.Details) ELSE 0)

C23_Witness ==
    /\ ResultRendered
    /\ lib.result.PerfData # <<>> /\ lib.result.Details # ""
    /\ lib.rendered =
          "TALOS CPU CRITICAL - CPU usage 34.2% | cpu_usage=34.2%;80;90;0;100\napid: down\netcd: down"

(***************************************************************************)
(* C24.  Every rendered measurement has the form                           *)
(* label=value[unit];warn;crit;min;max: the four semicolons are always     *)
(* there, and an unset warn, crit, min or max is an empty field between    *)
(* them, never a field left out.                                           *)
(***************************************************************************)
RECURSIVE Fields(_)
\* the fields of s between its semicolons
Fields(s) ==
    IF Index(s, ";") = 0 THEN <<s>>
    ELSE <<SubSeq(s, 1, Index(s, ";") - 1)>>
            \o Fields(SubSeq(s, Index(s, ";") + 1, Len(s)))

DatumRendered == lib # Nil /\ lib.pc = "datum_rendered"

C24_MeasurementFields ==
    DatumRendered =>
       Fields(lib.rendered) =
          << lib.datum.Label \o "=" \o formatValue(lib.datum.Value) \o lib.datum.UOM,
             lib.datum.Warn, lib.datum.Crit, lib.datum.Min, lib.datum.Max >>

C24_Witness ==
    /\ DatumRendered
    /\ lib.datum.Warn = "" /\ lib.datum.Crit = "" /\ lib.datum.Max = ""
    /\ lib.rendered = "cpu_usage=1.23B;;;0;"

(***************************************************************************)
(* C25.  Validation performs no file-existence check on the values of      *)
(* --talos-ca, --talos-cert and --talos-key: when the three are inline     *)
(* base64-encoded PEM data, not paths of existing files, and the command   *)
(* line breaks no other rule, validation passes and main goes on to        *)
(* construct the client, where the values are resolved.                    *)
(* This fails: validate runs checkFileReadable on the three values.        *)
(***************************************************************************)
\* base64-encoded PEM data ("-----BEGIN"), the path of no file
InlinePEM == {v \in {"LS0tLS1CRUdJTg=="} : Stat(v) = "absent"}

InlinePEMGiven ==
    /\ args # Nil /\ args.cmd # ""
    /\ {args.CA, args.Cert, args.Key} \subseteq InlinePEM
    /\ args.Config = ""
    /\ FailedRules \subseteq {"V4"}

C25_InlinePEMPassesValidation ==
    (InlinePEMGiven /\ pc \notin {"parse", "validate"}) =>
       /\ client # "none" \/ pc = "newclient"
       /\ ~HasPrefix(plugin.ServiceOutput,
                     "TALOS " \o resolveCheckName(args) \o " UNKNOWN - Cannot read")

(***************************************************************************)
(* C26.  In the etcd check, once the status retrieval has shown that no    *)
(* leader is elected (leader = 0), the result is CRITICAL "No leader       *)
(* elected" whatever the later member-list and alarm-list retrievals       *)
(* return (failure, empty response or data).                               *)
(* As stated this fails: the two later retrievals are made before the      *)
(* leader is asserted, and a failure of either, or a member-list response  *)
(* without messages, ends Run first.                                       *)
(***************************************************************************)
\* the etcd check ran to the end and its status retrieval showed leader = 0
NoLeaderSeen ==
    /\ pc = "exit" /\ chk # Nil /\ chk.kind = "etcd"
    /\ Got(calls[1]) = "data"
    /\ Msg(1).MemberStatus # Nil
    /\ Msg(1).MemberStatus.Leader = 0

NoLeaderReported ==
    /\ plugin.ExitStatusCode = 2
    /\ plugin.ServiceOutput = "TALOS ETCD CRITICAL - No leader elected"

C26_NoLeaderWhateverFollows ==
    NoLeaderSeen => NoLeaderReported

\* C26 as the code has it: "No leader elected" is the result whatever data
\* the later retrievals return; a failed retrieval is reported as the
\* error is mapped, a member-list response without messages as UNKNOWN.
C26_NoLeaderUnlessRetrievalFails ==
    NoLeaderSeen =>
       /\ Len(calls) >= 2
       /\ Got(calls[Len(calls)]) = "error" =>
             /\ result = Nil
             /\ plugin = ApplyToPlugin(mapGRPCError("ETCD", err, args.Timeout), NewPlugin)
       /\ (Len(calls) = 2 /\ Got(calls[2]) = "empty") =>
             /\ plugin.ExitStatusCode = 3
             /\ plugin.ServiceOutput =
                   "TALOS ETCD UNKNOWN - Empty member list response from Talos API"
       /\ (Len(calls) = 3 /\ Got(calls[3]) # "error") =>
             /\ Got(calls[2]) = "data"
             /\ NoLeaderReported

C26_Witness ==
    /\ NoLeaderSeen
    /\ Len(calls) = 3
    /\ Len(Msg(2).Members) < args.MinMembers
    /\ Got(calls[3]) = "data"
    /\ Msg(3).MemberAlarms = <<"NOSPACE">>
    /\ NoLeaderReported

(***************************************************************************)
(* C27.  With an allow-list (--include) configured the services check      *)
(* returns OK only if every allow-listed service appears in the response   *)
(* and satisfies the health predicate; an allow-listed service that is     *)
(* missing from the response is never reported as OK.                      *)
(* This fails: the check counts the listed services that pass the filter,  *)
(* and a service that is not listed is not counted at all.                 *)
(***************************************************************************)
\* the service named id is in the response
Listed(id) == \E i \in 1..Len(Msg(1).Services) : Msg(1).Services[i].Id = id

C27_AllowListedServiceMustBeListed ==
    (/\ RunReturned /\ chk.kind = "services"
     /\ args.Include # {}
     /\ result # Nil /\ result.Status = OK)
    => \A id \in args.Include :
          /\ Listed(id)
          /\ \A i \in 1..Len(Msg(1).Services) :
                Msg(1).Services[i].Id = id => SatisfiesPredicate(Msg(1).Services[i])

(***************************************************************************)
(* C28.  Whenever the disk or the memory check attaches measurements, the  *)
(* usage percentage lies between 0 and 100, the min and max it declares,   *)
(* and the used bytes do not exceed the total: used = total - available    *)
(* never wraps around, also when available is reported above total.        *)
(* This fails: the subtraction is unsigned and unguarded.                  *)
(***************************************************************************)
\* the disk or memory check returned a result with measurements
UsageMeasured ==
    /\ RunReturned /\ chk.kind \in {"disk", "memory"}
    /\ result # Nil /\ result.PerfData # <<>>

C28_UsageWithinDeclaredBounds ==
    UsageMeasured =>
       /\ result.PerfData[1].Value >= 0
       /\ result.PerfData[1].Value <= 100 * Scale
       /\ result.PerfData[2].Value <= result.PerfData[3].Value

(***************************************************************************)
(* C29.  For the CPU, memory and disk checks the percentage is rounded to  *)
(* one decimal place, half away from zero, before it is compared with the  *)
(* thresholds; the value compared is the value of the usage measurement    *)
(* and of the summary; a raw value that rounds to a bound is treated as    *)
(* being on the bound.                                                     *)
(***************************************************************************)
\* the position of the entry the disk check evaluates
MatchedMount ==
    CHOOSE i \in 1..Len(Msg(1).Stats) :
       /\ Msg(1).Stats[i].MountedOn = args.Mount
       /\ \A j \in 1..(i - 1) : Msg(1).Stats[j].MountedOn # args.Mount

\* the raw usage as the fraction part / whole
UsagePart ==
    CASE chk.kind = "cpu" ->
            CPUTotalTime(Msg(1).CpuTotal) - Msg(1).CpuTotal.Idle - Msg(1).CpuTotal.Iowait
      [] chk.kind = "memory" ->
            (Msg(1).Meminfo.Memtotal - Msg(1).Meminfo.Memavailable) * 1024
      [] chk.kind = "disk" ->
            Msg(1).Stats[MatchedMount].Size - Msg(1).Stats[MatchedMount].Available

UsageWhole ==
    CASE chk.kind = "cpu" -> CPUTotalTime(Msg(1).CpuTotal)
      [] chk.kind = "memory" -> Msg(1).Meminfo.Memtotal * 1024
      [] chk.kind = "disk" -> Msg(1).Stats[MatchedMount].Size

\* a CPU, memory or disk result with its usage measurement
PercentageEvaluated ==
    /\ RunReturned /\ chk.kind \in {"cpu", "memory", "disk"}
    /\ result # Nil /\ result.PerfData # <<>>

\* v (in 1/Scale) is part/whole in percent rounded to one decimal, a half
\* going away from zero
RoundedToOneDecimal(v, part, whole) ==
    /\ v % 10 = 0
    /\ 2 * (v * whole - 100 * Scale * part) <= 10 * whole
    /\ 2 * (v * whole - 100 * Scale * part) > 0 - 10 * whole

SummaryStart ==
    CASE chk.kind = "cpu" -> "CPU usage "
      [] chk.kind = "memory" -> "Memory usage "
      [] chk.kind = "disk" -> args.Mount \o " usage "

C29_RoundedBeforeComparison ==
    PercentageEvaluated =>
       /\ UsagePart >= 0 =>
             RoundedToOneDecimal(result.PerfData[1].Value, UsagePart, UsageWhole)
       /\ result.Status =
             IF Violated(chk.Critical, result.PerfData[1].Value) THEN Critical
             ELSE IF Violated(chk.Warning, result.PerfData[1].Value) THEN Warning
             ELSE OK
       /\ HasPrefix(result.Summary,
                    SummaryStart \o Fmt1(result.PerfData[1].Value) \o "%")

\* 13 of 16 units of CPU time are active: 81.25 % is below the bound of
\* the warning range 81.3:, is rounded up to 81.3 and does not violate it
C29_Witness ==
    /\ PercentageEvaluated
    /\ chk.kind = "cpu"
    /\ args.Warning = "81.3:"
    /\ UsagePart = 13 /\ UsageWhole = 16
    /\ result.PerfData[1].Value = 8130
    /\ result.Status = OK
    /\ result.Summary = "CPU usage 81.3%"

(***************************************************************************)
(* C30.  Step 1 of the etcd evaluation asserts on the retrieved status     *)
(* both that leader is not 0 and that the errors list of the status is     *)
(* empty: a status that reports errors is not evaluated as healthy (OK).   *)
(* This fails: the errors list of the status is never read.                *)
(***************************************************************************)
\* the etcd check returned a result and the status it retrieved lists errors
StatusReportsErrors ==
    /\ RunReturned /\ chk.kind = "etcd"
    /\ Got(calls[1]) = "data"
    /\ Msg(1).MemberStatus # Nil
    /\ Msg(1).MemberStatus.Errors # <<>>
    /\ result # Nil

C30_StatusErrorsAreAsserted ==
    StatusReportsErrors => result.Status # OK

====
